---------------------------- MODULE Spec2Model ----------------------------
(***************************************************************************)
(* Vietnamese legal document parser: parseDocument, generateURN,           *)
(* generateCypher and countComponents of web/src/lib/parser.ts, and the    *)
(* generate request handler of web/src/app/api/generate/route.ts.          *)
(*                                                                         *)
(* A JavaScript string is a sequence of characters, one TLA+ string per    *)
(* character.  An ASCII character is itself ("a", ".", " ", "\n"); a       *)
(* Vietnamese letter is spelled in Telex ("dd" is d-stroke, "eef" is e     *)
(* circumflex grave, "uws" is u-horn acute, ...), upper case for the       *)
(* upper-case letter.  The pieces of a template literal that the code      *)
(* writes itself are kept as one string per piece, so the only one-quote   *)
(* characters "'" that stand alone in an output line come from a value     *)
(* spliced into it.                                                        *)
(***************************************************************************)
EXTENDS Integers, Sequences, FiniteSets, TLC

(***************************************************************************)
(* Bounds of the model.                                                    *)
(***************************************************************************)
MaxLines == 3
MaxClock == 1
MaxArticleLines == 4
MaxCalls == 2

(***************************************************************************)
(* Characters.                                                             *)
(***************************************************************************)
NL == "\n"
QUOTE == "'"
BACKSLASH == "\\"

\* JS null of a nullable string: a one-element sequence no string equals.
NULL == <<"<null>">>

Digits == {"0", "1", "2", "3", "4", "5", "6", "7", "8", "9"}

\* \s of a JS regular expression, and the characters String.trim removes
Whitespace == {" ", "\t", NL, "\r"}

\* the characters "." of a JS regular expression does not match
LineTerminators == {NL, "\r"}

UpperToLower ==
  "A" :> "a" @@ "B" :> "b" @@ "C" :> "c" @@ "D" :> "d" @@ "E" :> "e" @@
  "F" :> "f" @@ "G" :> "g" @@ "H" :> "h" @@ "I" :> "i" @@ "J" :> "j" @@
  "K" :> "k" @@ "L" :> "l" @@ "M" :> "m" @@ "N" :> "n" @@ "O" :> "o" @@
  "P" :> "p" @@ "Q" :> "q" @@ "R" :> "r" @@ "S" :> "s" @@ "T" :> "t" @@
  "U" :> "u" @@ "V" :> "v" @@ "W" :> "w" @@ "X" :> "x" @@ "Y" :> "y" @@
  "Z" :> "z" @@
  "AAF" :> "aaf" @@ "AAJ" :> "aaj" @@ "AAX" :> "aax" @@ "AF" :> "af" @@
  "AR" :> "ar" @@ "AS" :> "as" @@ "AW" :> "aw" @@ "AX" :> "ax" @@
  "DD" :> "dd" @@ "EE" :> "ee" @@ "EEF" :> "eef" @@ "EEJ" :> "eej" @@
  "EER" :> "eer" @@ "EES" :> "ees" @@ "IF" :> "if" @@ "IJ" :> "ij" @@
  "IR" :> "ir" @@ "OO" :> "oo" @@ "OOJ" :> "ooj" @@ "OOR" :> "oor" @@
  "OOS" :> "oos" @@ "OR" :> "or" @@ "OW" :> "ow" @@ "OWS" :> "ows" @@
  "UJ" :> "uj" @@ "UR" :> "ur" @@ "UW" :> "uw" @@ "UWJ" :> "uwj" @@
  "UWR" :> "uwr" @@ "UWS" :> "uws"

\* String.toLowerCase on one character; also the case folding of the i flag
LowerChar(c) == IF c \in DOMAIN UpperToLower THEN UpperToLower[c] ELSE c

\* String.toLowerCase
ToLowerCase(s) == [k \in 1..Len(s) |-> LowerChar(s[k])]

AsciiLower ==
  {"a", "b", "c", "d", "e", "f", "g", "h", "i", "j", "k", "l", "m",
   "n", "o", "p", "q", "r", "s", "t", "u", "v", "w", "x", "y", "z"}

AsciiUpper ==
  {"A", "B", "C", "D", "E", "F", "G", "H", "I", "J", "K", "L", "M",
   "N", "O", "P", "Q", "R", "S", "T", "U", "V", "W", "X", "Y", "Z"}

\* [a-z] under the i flag
IsLetterCI(c) == LowerChar(c) \in AsciiLower /\ c \in (AsciiLower \cup AsciiUpper)

\* [IVXLCDM] under the i flag
IsRomanCI(c) == c \in (AsciiLower \cup AsciiUpper)
                /\ LowerChar(c) \in {"i", "v", "x", "l", "c", "d", "m"}

\* [a-zA-Z0-9-]
IsUrnChar(c) == c \in (AsciiLower \cup AsciiUpper \cup Digits \cup {"-"})

(***************************************************************************)
(* String operations of the JS runtime the code uses.                      *)
(***************************************************************************)
Min(a, b) == IF a < b THEN a ELSE b

\* s.substring(0, n)
Substring0(s, n) == SubSeq(s, 1, Min(n, Len(s)))

\* the suffix of s that starts at position p (1-based)
From(s, p) == SubSeq(s, p, Len(s))

\* the literal pattern pat matches s at position p, case-insensitively
MatchesAtCI(s, p, pat) ==
  /\ p + Len(pat) - 1 <= Len(s)
  /\ \A k \in 1..Len(pat) : LowerChar(s[p + k - 1]) = LowerChar(pat[k])

\* the literal pattern pat matches s at position p, case-sensitively
MatchesAt(s, p, pat) ==
  /\ p + Len(pat) - 1 <= Len(s)
  /\ \A k \in 1..Len(pat) : s[p + k - 1] = pat[k]

\* String.includes
Includes(s, pat) == \E p \in 1..(Len(s) + 1) : MatchesAt(s, p, pat)

\* length of the longest run of characters of class C that starts at p
RECURSIVE RunLen(_, _, _)
RunLen(s, p, C) ==
  IF p <= Len(s) /\ s[p] \in C THEN 1 + RunLen(s, p + 1, C) ELSE 0

\* length of the longest run of characters outside class C that starts at p
RECURSIVE RunLenNot(_, _, _)
RunLenNot(s, p, C) ==
  IF p <= Len(s) /\ s[p] \notin C THEN 1 + RunLenNot(s, p + 1, C) ELSE 0

\* String.trim
RECURSIVE TrimEnd(_)
TrimEnd(s) ==
  IF Len(s) > 0 /\ s[Len(s)] \in Whitespace
    THEN TrimEnd(SubSeq(s, 1, Len(s) - 1)) ELSE s

Trim(s) == TrimEnd(From(s, 1 + RunLen(s, 1, Whitespace)))

\* String.split("\n")
RECURSIVE SplitFrom(_, _)
SplitFrom(s, p) ==
  LET n == RunLenNot(s, p, {NL})
  IN  IF p + n > Len(s) THEN <<SubSeq(s, p, Len(s))>>
      ELSE <<SubSeq(s, p, p + n - 1)>> \o SplitFrom(s, p + n + 1)

Split(s) == SplitFrom(s, 1)

\* Array.join("\n")
RECURSIVE Join(_)
Join(ls) ==
  IF Len(ls) = 0 THEN <<>>
  ELSE IF Len(ls) = 1 THEN ls[1]
  ELSE ls[1] \o <<NL>> \o Join(Tail(ls))

\* String.padStart(2, "0")
PadStart2(s) == IF Len(s) < 2 THEN <<"0">> \o s ELSE s

\* String.replace(/'/g, "\\'")
RECURSIVE EscapeQuotes(_)
EscapeQuotes(s) ==
  IF Len(s) = 0 THEN <<>>
  ELSE (IF Head(s) = QUOTE THEN <<BACKSLASH, QUOTE>> ELSE <<Head(s)>>)
       \o EscapeQuotes(Tail(s))

\* String.replace(/\n/g, " ")
NewlinesToSpaces(s) == [k \in 1..Len(s) |-> IF s[k] = NL THEN " " ELSE s[k]]

\* String.replace(/_/g, "")
StripUnderscores(s) == SelectSeq(s, LAMBDA c : c # "_")

(***************************************************************************)
(* The tables.                                                             *)
(***************************************************************************)
\* lines 3-19: the entries in table order, <<pattern after "^", code>>
DOC_TYPE_PATTERNS ==
  <<
   << <<"H", "I", "EES", "N", " ", "P", "H", "AS", "P">>,
      <<"H", "I", "E", "N", "_", "P", "H", "A", "P">> >>,
   << <<"B", "OOJ", " ", "L", "U", "AAJ", "T">>,
      <<"B", "O", "_", "L", "U", "A", "T">> >>,
   << <<"L", "U", "AAJ", "T">>,
      <<"L", "U", "A", "T">> >>,
   << <<"P", "H", "AS", "P", " ", "L", "EEJ", "N", "H">>,
      <<"P", "H", "A", "P", "_", "L", "E", "N", "H">> >>,
   << <<"N", "G", "H", "IJ", " ", "Q", "U", "Y", "EES", "T">>,
      <<"N", "G", "H", "I", "_", "Q", "U", "Y", "E", "T">> >>,
   << <<"N", "G", "H", "IJ", " ", "DD", "IJ", "N", "H">>,
      <<"N", "G", "H", "I", "_", "D", "I", "N", "H">> >>,
   << <<"Q", "U", "Y", "EES", "T", " ", "DD", "IJ", "N", "H">>,
      <<"Q", "U", "Y", "E", "T", "_", "D", "I", "N", "H">> >>,
   << <<"C", "H", "IR", " ", "T", "H", "IJ">>,
      <<"C", "H", "I", "_", "T", "H", "I">> >>,
   << <<"T", "H", "OO", "N", "G", " ", "T", "UW", " ", "L", "I", "EE", "N", " ", "T", "IJ", "C", "H">>,
      <<"T", "H", "O", "N", "G", "_", "T", "U", "_", "L", "I", "E", "N", "_", "T", "I", "C", "H">> >>,
   << <<"T", "H", "OO", "N", "G", " ", "T", "UW">>,
      <<"T", "H", "O", "N", "G", "_", "T", "U">> >>,
   << <<"T", "H", "OO", "N", "G", " ", "B", "AS", "O">>,
      <<"T", "H", "O", "N", "G", "_", "B", "A", "O">> >>,
   << <<"H", "UW", "OWS", "N", "G", " ", "D", "AAX", "N">>,
      <<"H", "U", "O", "N", "G", "_", "D", "A", "N">> >>,
   << <<"Q", "U", "Y", " ", "C", "H", "EES">>,
      <<"Q", "U", "Y", "_", "C", "H", "E">> >>,
   << <<"Q", "U", "Y", " ", "DD", "IJ", "N", "H">>,
      <<"Q", "U", "Y", "_", "D", "I", "N", "H">> >>,
   << <<"DD", "I", "EEF", "U", " ", "L", "EEJ">>,
      <<"D", "I", "E", "U", "_", "L", "E">> >>
  >>

\* lines 21-30: the entries in table order, <<keyword, code>>
LEGISLATIVE_ACTIONS ==
  <<
   << <<"b", "a", "n", " ", "h", "af", "n", "h">>,
      <<"B", "A", "N", "_", "H", "A", "N", "H">> >>,
   << <<"s", "uwr", "a", " ", "dd", "oor", "i">>,
      <<"S", "U", "A", "_", "D", "O", "I">> >>,
   << <<"b", "oor", " ", "s", "u", "n", "g">>,
      <<"B", "O", "_", "S", "U", "N", "G">> >>,
   << <<"t", "h", "a", "y", " ", "t", "h", "ees">>,
      <<"T", "H", "A", "Y", "_", "T", "H", "E">> >>,
   << <<"b", "ax", "i", " ", "b", "or">>,
      <<"B", "A", "I", "_", "B", "O">> >>,
   << <<"dd", "if", "n", "h", " ", "c", "h", "ir">>,
      <<"D", "I", "N", "H", "_", "C", "H", "I">> >>,
   << <<"h", "ur", "y", " ", "b", "or">>,
      <<"H", "U", "Y", "_", "B", "O">> >>,
   << <<"h", "ees", "t", " ", "h", "i", "eej", "u", " ", "l", "uwj", "c">>,
      <<"H", "E", "T", "_", "H", "I", "E", "U", "_", "L", "U", "C">> >>
  >>

(***************************************************************************)
(* parseDocument, lines 58-85: the classifier.                             *)
(***************************************************************************)
\* lines 58-65 with null in place of the default "VAN_BAN" of line 58
RECURSIVE DetectDocTypeFrom_NoDefault(_, _)
DetectDocTypeFrom_NoDefault(text, k) ==
  IF k > Len(DOC_TYPE_PATTERNS) THEN NULL
  ELSE IF MatchesAtCI(text, 1, DOC_TYPE_PATTERNS[k][1])
         THEN DOC_TYPE_PATTERNS[k][2]
         ELSE DetectDocTypeFrom_NoDefault(text, k + 1)

\* lines 59-65: the first entry of DOC_TYPE_PATTERNS, in table order, whose
\* pattern new RegExp("^...", "i") matches the text; VAN_BAN when none does
RECURSIVE DetectDocTypeFrom(_, _)
DetectDocTypeFrom(text, k) ==
  IF k > Len(DOC_TYPE_PATTERNS) THEN <<"V", "A", "N", "_", "B", "A", "N">>
  ELSE IF MatchesAtCI(text, 1, DOC_TYPE_PATTERNS[k][1])
         THEN DOC_TYPE_PATTERNS[k][2]
         ELSE DetectDocTypeFrom(text, k + 1)

\* lines 60-65 without the break of line 63: the last match wins
DetectDocType_NoBreak(text) ==
  LET ks == {k \in 1..Len(DOC_TYPE_PATTERNS) :
               MatchesAtCI(text, 1, DOC_TYPE_PATTERNS[k][1])}
  IN  IF ks = {} THEN <<"V", "A", "N", "_", "B", "A", "N">>
      ELSE DOC_TYPE_PATTERNS[CHOOSE k \in ks : \A j \in ks : j <= k][2]

DetectDocType(text) == DetectDocTypeFrom(text, 1)

\* the least and the greatest element of a non-empty set of positions
MinOf(S) == CHOOSE x \in S : \A y \in S : x <= y
MaxOf(S) == CHOOSE x \in S : \A y \in S : y <= x

SoLabel == <<"S", "oos", ":">>

\* /So:\s*([^\n]+)/i tried at position p: the set of lengths \s* can take
\* so that [^\n]+ still finds a character
NumberWsChoices(text, p) ==
  {k \in 0..RunLen(text, p + Len(SoLabel), Whitespace) :
     /\ p + Len(SoLabel) + k <= Len(text)
     /\ text[p + Len(SoLabel) + k] # NL}

NumberMatchesAt(text, p) ==
  MatchesAtCI(text, p, SoLabel) /\ NumberWsChoices(text, p) # {}

\* ([^\n]+) from position b on: greedy, up to the end of the line
NumberCaptureFrom(text, b) == SubSeq(text, b, b + RunLenNot(text, b, {NL}) - 1)

\* the capture group of the match at p: \s* is greedy, then [^\n]+ is
NumberCaptureAt(text, p) ==
  NumberCaptureFrom(text, p + Len(SoLabel) + MaxOf(NumberWsChoices(text, p)))

\* line 69: numberMatch ? numberMatch[1].trim() : null, ps the positions
\* at which the pattern of line 68 matches
NumberOrNull(text, ps) ==
  IF ps = {} THEN NULL ELSE Trim(NumberCaptureAt(text, MinOf(ps)))

\* lines 68-69
ExtractNumber(text) ==
  NumberOrNull(text, {p \in 1..Len(text) : NumberMatchesAt(text, p)})

KwNgay  == <<"n", "g", "af", "y">>
KwThang == <<"t", "h", "as", "n", "g">>
KwNam   == <<"n", "aw", "m">>

\* The pieces of /ngay\s+(\d{1,2})\s+thang\s+(\d{1,2})\s+nam\s+(\d{4})/i,
\* each tried at position p: the position just after the piece, 0 when the
\* piece does not match there (or p is 0 already)
AfterKeyword(text, p, kw) ==
  IF p # 0 /\ MatchesAtCI(text, p, kw) THEN p + Len(kw) ELSE 0

\* \s+
AfterSpaces(text, p) ==
  IF p # 0 /\ RunLen(text, p, Whitespace) >= 1
    THEN p + RunLen(text, p, Whitespace) ELSE 0

\* (\d{1,2}) followed by \s+: a third digit makes the match fail
AfterDigits12(text, p) ==
  IF p # 0 /\ RunLen(text, p, Digits) \in {1, 2}
    THEN p + RunLen(text, p, Digits) ELSE 0

\* where the day, the month and the year start in the match tried at p
DayStart(text, p) == AfterSpaces(text, AfterKeyword(text, p, KwNgay))

MonthStart(text, p) ==
  AfterSpaces(text,
    AfterKeyword(text,
      AfterSpaces(text, AfterDigits12(text, DayStart(text, p))), KwThang))

YearStart(text, p) ==
  AfterSpaces(text,
    AfterKeyword(text,
      AfterSpaces(text, AfterDigits12(text, MonthStart(text, p))), KwNam))

DateMatchesAt(text, p) ==
  /\ YearStart(text, p) # 0
  /\ RunLen(text, YearStart(text, p), Digits) >= 4

\* line 74: `${year}-${month.padStart(2, "0")}-${day.padStart(2, "0")}`,
\* the groups starting at d, m and y
DateString(text, d, m, y) ==
  SubSeq(text, y, y + 3) \o <<"-">>
  \o PadStart2(SubSeq(text, m, m + RunLen(text, m, Digits) - 1)) \o <<"-">>
  \o PadStart2(SubSeq(text, d, d + RunLen(text, d, Digits) - 1))

\* lines 73-75: the date of the match at p
DateAt(text, p) ==
  DateString(text, DayStart(text, p), MonthStart(text, p), YearStart(text, p))

\* lines 72-75 with the last match of the pattern in place of the first
DateOrNull_Last(text, ps) == IF ps = {} THEN NULL ELSE DateAt(text, MaxOf(ps))

\* dateMatch ? ... : null, ps the positions at which the pattern matches
DateOrNull(text, ps) == IF ps = {} THEN NULL ELSE DateAt(text, MinOf(ps))

\* lines 72-75
ExtractDate(text) ==
  DateOrNull(text, {p \in 1..Len(text) : DateMatchesAt(text, p)})

\* lines 78-85: the first keyword of LEGISLATIVE_ACTIONS, in table order,
\* that the lower-cased text includes; BAN_HANH when none does
RECURSIVE DetectActionFrom(_, _)
DetectActionFrom(lowerText, k) ==
  IF k > Len(LEGISLATIVE_ACTIONS) THEN <<"B", "A", "N", "_", "H", "A", "N", "H">>
  ELSE IF Includes(lowerText, LEGISLATIVE_ACTIONS[k][1])
         THEN LEGISLATIVE_ACTIONS[k][2]
         ELSE DetectActionFrom(lowerText, k + 1)

\* where pat first occurs in s
FirstOccurrence(s, pat) == MinOf({p \in 1..(Len(s) + 1) : MatchesAt(s, p, pat)})

\* lines 78-85 with the keyword that occurs first in the text winning
DetectAction_ByOccurrence(text) ==
  LET low == ToLowerCase(text)
      ks  == {k \in 1..Len(LEGISLATIVE_ACTIONS) :
                Includes(low, LEGISLATIVE_ACTIONS[k][1])}
  IN  IF ks = {} THEN <<"B", "A", "N", "_", "H", "A", "N", "H">>
      ELSE LEGISLATIVE_ACTIONS[
             CHOOSE k \in ks : \A j \in ks :
               FirstOccurrence(low, LEGISLATIVE_ACTIONS[k][1])
                 <= FirstOccurrence(low, LEGISLATIVE_ACTIONS[j][1])][2]

DetectAction(text) == DetectActionFrom(ToLowerCase(text), 1)

(***************************************************************************)
(* parseDocument, lines 92-99: the marker patterns.  The result of         *)
(* line.match(regex) is the sequence of its capture groups match[1..], or  *)
(* NoMatch; a group that took no part in the match is UNDEFINED.           *)
(***************************************************************************)
UNDEFINED == <<"<undefined>">>
NoMatch == <<>>

KwPhan   == <<"P", "h", "aaf", "n">>
KwThu    == <<"t", "h", "uws">>
KwChuong == <<"C", "h", "uw", "ow", "n", "g">>
KwMuc    == <<"M", "uj", "c">>
KwDieu   == <<"DD", "i", "eef", "u">>

\* (.*)$ at position p: the rest of the line, which "." must be able to cross
RestOk(line, p) == RunLenNot(line, p, LineTerminators) = Len(line) - p + 1

\* [IVXLCDM] under the i flag
RomanNumerals == {c \in AsciiLower \cup AsciiUpper : IsRomanCI(c)}

\* ([IVXLCDM]+|[0-9]+) at position p, under the i flag: the length taken
NumeralLen(line, p) ==
  IF RunLen(line, p, RomanNumerals) > 0
    THEN RunLen(line, p, RomanNumerals)
    ELSE RunLen(line, p, Digits)

\* where the numeral that starts at p ends: roman or arabic when roman is
\* allowed, arabic otherwise
NumeralEnd(line, p, romanAllowed) ==
  p + (IF romanAllowed THEN NumeralLen(line, p) ELSE RunLen(line, p, Digits))

\* where (.*) starts when [.:] is at position s: just after [.:]\s*
TitleStart(line, s) == s + 1 + RunLen(line, s + 1, Whitespace)

\* (<numeral>)[.:]\s*(.*)$ with the numeral from p to s - 1: its groups
NumberedGroups(line, p, s) ==
  IF s > p /\ s <= Len(line) /\ line[s] \in {".", ":"}
     /\ RestOk(line, TitleStart(line, s))
    THEN <<SubSeq(line, p, s - 1), From(line, TitleStart(line, s))>>
    ELSE NoMatch

\* where \s+ tried at p ends; p when it does not match
AfterWs(line, p) == p + RunLen(line, p, Whitespace)

\* where (thu\s+)? tried at b ends; b when the group takes no part
OrdinalEnd(line, b) ==
  IF MatchesAtCI(line, b, KwThu)
     /\ AfterWs(line, b + Len(KwThu)) > b + Len(KwThu)
    THEN AfterWs(line, b + Len(KwThu)) ELSE b

\* the groups of PHAN: group 1 from b to c - 1, then the groups g of the rest
PhanGroups(line, b, c, g) ==
  IF g = NoMatch THEN NoMatch
  ELSE <<IF c > b THEN SubSeq(line, b, c - 1) ELSE UNDEFINED>> \o g

\* PHAN with \s+ ending at b and (thu\s+)? ending at c
PhanAt(line, b, c) ==
  IF MatchesAtCI(line, 1, KwPhan) /\ b > 1 + Len(KwPhan)
    THEN PhanGroups(line, b, c,
                    NumberedGroups(line, c, NumeralEnd(line, c, TRUE)))
    ELSE NoMatch

\* /^Phan\s+(thu\s+)?([IVXLCDM]+|[0-9]+)[.:]\s*(.*)$/i
MatchPHAN(line) ==
  PhanAt(line, AfterWs(line, 1 + Len(KwPhan)),
         OrdinalEnd(line, AfterWs(line, 1 + Len(KwPhan))))

\* <keyword>\s+(<numeral>)[.:]\s*(.*)$ with \s+ ending at p
KeywordedAt(line, kw, p, romanAllowed) ==
  IF MatchesAtCI(line, 1, kw) /\ p > 1 + Len(kw)
    THEN NumberedGroups(line, p, NumeralEnd(line, p, romanAllowed))
    ELSE NoMatch

\* /^<keyword>\s+(<numeral>)[.:]\s*(.*)$/i for Chuong, Muc and Dieu
MatchKeyworded(line, kw, romanAllowed) ==
  KeywordedAt(line, kw, AfterWs(line, 1 + Len(kw)), romanAllowed)

\* ^([0-9]+)\.\s+(.*)$ with the digits ending before n and \s+ before t
KhoanAt(line, n, t) ==
  IF n > 1 /\ n <= Len(line) /\ line[n] = "." /\ t > n + 1 /\ RestOk(line, t)
    THEN <<SubSeq(line, 1, n - 1), From(line, t)>>
    ELSE NoMatch

\* /^([0-9]+)\.\s+(.*)$/i
MatchKHOAN(line) ==
  KhoanAt(line, 1 + RunLen(line, 1, Digits),
          AfterWs(line, 2 + RunLen(line, 1, Digits)))

\* /^([a-z])\)\s+(.*)$/i
MatchDIEM(line) ==
  IF Len(line) >= 2 /\ IsLetterCI(line[1]) /\ line[2] = ")"
     /\ AfterWs(line, 3) > 3 /\ RestOk(line, AfterWs(line, 3))
    THEN <<SubSeq(line, 1, 1), From(line, AfterWs(line, 3))>>
    ELSE NoMatch

\* lines 92-99: the table, in the order the loop of line 106 tries it
componentPatterns ==
  << [type |-> <<"P", "H", "A", "N">>,   level |-> 1],
     [type |-> <<"C", "H", "U", "O", "N", "G">>, level |-> 2],
     [type |-> <<"M", "U", "C">>,    level |-> 3],
     [type |-> <<"D", "I", "E", "U">>,   level |-> 4],
     [type |-> <<"K", "H", "O", "A", "N">>,  level |-> 5],
     [type |-> <<"D", "I", "E", "M">>,   level |-> 6] >>

\* line 107: line.match(regex) for the k-th entry of componentPatterns
MatchRegex(k, line) ==
  CASE k = 1 -> MatchPHAN(line)
    [] k = 2 -> MatchKeyworded(line, KwChuong, TRUE)
    [] k = 3 -> MatchKeyworded(line, KwMuc, FALSE)
    [] k = 4 -> MatchKeyworded(line, KwDieu, FALSE)
    [] k = 5 -> MatchKHOAN(line)
    [] k = 6 -> MatchDIEM(line)

\* lines 106-108: the index of the first pattern from k on that matches,
\* 0 when none does
RECURSIVE FirstPatternFrom(_, _)
FirstPatternFrom(line, k) ==
  IF k > Len(componentPatterns) THEN 0
  ELSE IF MatchRegex(k, line) # NoMatch THEN k
  ELSE FirstPatternFrom(line, k + 1)

FirstPattern(line) == FirstPatternFrom(line, 1)

\* x || "" of lines 117-118
OrEmpty(x) == IF x = UNDEFINED THEN <<>> ELSE x

\* lines 114-121: the component built from the match of pattern k
NewComponent(k, match) ==
  [type     |-> componentPatterns[k].type,
   level    |-> componentPatterns[k].level,
   number   |-> OrEmpty(match[1]),
   title    |-> OrEmpty(match[Len(match)]),
   content  |-> <<>>,
   children |-> <<>>]

(***************************************************************************)
(* parseDocument, lines 151-153: the cross-references.                     *)
(***************************************************************************)
KwKhoan == <<"K", "h", "o", "ar", "n">>
KwDiem  == <<"DD", "i", "eer", "m">>

\* (?:Dieu|Khoan|Diem)
RefKeywords == {KwDieu, KwKhoan, KwDiem}

\* (?:Luat|Nghi dinh|Thong tu)
RefLawWords ==
  { <<"L", "u", "aaj", "t">>,
    <<"N", "g", "h", "ij", " ", "dd", "ij", "n", "h">>,
    <<"T", "h", "oo", "n", "g", " ", "t", "uw">> }

\* the characters [^,;.] excludes
RefStops == {",", ";", "."}

\* one of the words of the set kws tried at p under the i flag: the
\* position just after it, 0 when none matches there (or p is 0 already);
\* no word of either set is a prefix of another
AfterOneOf(text, p, kws) ==
  IF p # 0 /\ \E kw \in kws : MatchesAtCI(text, p, kw)
    THEN p + Len(CHOOSE kw \in kws : MatchesAtCI(text, p, kw))
    ELSE 0

\* [\d]+
AfterDigits(text, p) ==
  IF p # 0 /\ RunLen(text, p, Digits) >= 1
    THEN p + RunLen(text, p, Digits) ELSE 0

\* (?:\s+(?:Luat|Nghi dinh|Thong tu)[^,;.]+)? tried at q, r the position
\* just after the law word (0 when \s+ or the word fails): where it ends
RefTailFrom(text, q, r) ==
  IF r # 0 /\ RunLenNot(text, r, RefStops) >= 1
    THEN r + RunLenNot(text, r, RefStops) ELSE q

RefTailEnd(text, q) ==
  RefTailFrom(text, q, AfterOneOf(text, AfterSpaces(text, q), RefLawWords))

\* (?:Dieu|Khoan|Diem)\s+[\d]+ tried at p: the position after it, or 0
RefHeadEnd(text, p) ==
  AfterDigits(text, AfterSpaces(text, AfterOneOf(text, p, RefKeywords)))

\* crossRefRegex tried at p: the position just after the match, or 0
RefEnd(text, p) ==
  IF RefHeadEnd(text, p) = 0 THEN 0 ELSE RefTailEnd(text, RefHeadEnd(text, p))

\* text.match(crossRefRegex) || [] under the g flag: the matched spans from
\* position p on, left to right, none overlapping another
RECURSIVE MatchAllFrom(_, _)
MatchAllFrom(text, p) ==
  IF p > Len(text) THEN <<>>
  ELSE IF RefEnd(text, p) # 0
         THEN <<SubSeq(text, p, RefEnd(text, p) - 1)>>
              \o MatchAllFrom(text, RefEnd(text, p))
         ELSE MatchAllFrom(text, p + 1)

\* [...new Set(a)] with strings compared after lower-casing
RECURSIVE UniqueFrom_IgnoreCase(_, _)
UniqueFrom_IgnoreCase(a, k) ==
  IF k > Len(a) THEN <<>>
  ELSE (IF \E j \in 1..(k - 1) : ToLowerCase(a[j]) = ToLowerCase(a[k])
          THEN <<>> ELSE <<a[k]>>)
       \o UniqueFrom_IgnoreCase(a, k + 1)

\* [...new Set(a)]: the elements of a from the k-th on that no earlier
\* element equals, in order
RECURSIVE UniqueFrom(_, _)
UniqueFrom(a, k) ==
  IF k > Len(a) THEN <<>>
  ELSE (IF \E j \in 1..(k - 1) : a[j] = a[k] THEN <<>> ELSE <<a[k]>>)
       \o UniqueFrom(a, k + 1)

\* lines 152-153
CrossReferences(text) == UniqueFrom(MatchAllFrom(text, 1), 1)

(***************************************************************************)
(* The component tree.  A ParsedComponent object is a record of the        *)
(* sequence nodes, named by its index there (objects are numbered in the   *)
(* order line 114 creates them); children, structure and stack hold        *)
(* indices, as the JS arrays hold references.                              *)
(***************************************************************************)
\* lines 110-112 and 147-149 with stack[0] for stack[stack.length - 1]
SaveContent_ToBottom(nds, stk, content) ==
  IF Len(stk) > 0
    THEN [nds EXCEPT ![stk[1]].content = Trim(Join(content))]
    ELSE nds

\* lines 110-112 and 147-149: the top of the stack receives the body text
SaveContent(nds, stk, content) ==
  IF Len(stk) > 0
    THEN [nds EXCEPT ![stk[Len(stk)]].content = Trim(Join(content))]
    ELSE nds

\* lines 124-126 with > for >=: an entry of the same level stays open
RECURSIVE PopStack_Strict(_, _, _)
PopStack_Strict(nds, stk, level) ==
  IF Len(stk) > 0 /\ nds[stk[Len(stk)]].level > level
    THEN PopStack_Strict(nds, SubSeq(stk, 1, Len(stk) - 1), level)
    ELSE stk

\* lines 124-126 with if for while: at most one entry is popped
PopStack_Once(nds, stk, level) ==
  IF Len(stk) > 0 /\ nds[stk[Len(stk)]].level >= level
    THEN SubSeq(stk, 1, Len(stk) - 1)
    ELSE stk

\* lines 124-126: the stack once every top entry of level >= level is popped
RECURSIVE PopStack(_, _, _)
PopStack(nds, stk, level) ==
  IF Len(stk) > 0 /\ nds[stk[Len(stk)]].level >= level
    THEN PopStack(nds, SubSeq(stk, 1, Len(stk) - 1), level)
    ELSE stk

\* line 131 with unshift for push
PushChild_Front(nds, parent, id) ==
  [nds EXCEPT ![parent].children = <<id>> \o @]

\* line 131 with an assignment of [component] for the push
PushChild_Replace(nds, parent, id) ==
  [nds EXCEPT ![parent].children = <<id>>]

\* line 131: children.push(component) on node parent
PushChild(nds, parent, id) ==
  [nds EXCEPT ![parent].children = Append(@, id)]

\* lines 240-247 without the recursion of line 244
countComponents_RootsOnly(nds, components) == Len(components)

\* lines 240-247
RECURSIVE countComponents(_, _)
countComponents(nds, components) ==
  IF Len(components) = 0 THEN 0
  ELSE 1 + countComponents(nds, nds[Head(components)].children)
         + countComponents(nds, Tail(components))

(***************************************************************************)
(* generateURN, lines 171-184.                                             *)
(***************************************************************************)
\* the exception of a method call on null
TypeError == <<"<TypeError>">>

\* ${x} in a template literal
TemplateValue(x) == IF x = NULL THEN <<"n", "u", "l", "l">> ELSE x

\* lines 179-181 without the replace of line 180: "/" goes with the rest
NormalizeNumber_DropSlash(number) == SelectSeq(number, IsUrnChar)

\* lines 179-181: "/" becomes "-", then what is outside [a-zA-Z0-9-] goes
NormalizeNumber(number) ==
  SelectSeq([k \in 1..Len(number) |->
               IF number[k] = "/" THEN "-" ELSE number[k]], IsUrnChar)

\* lines 177-178
NormalizeCode(code) == StripUnderscores(ToLowerCase(code))

UrnPrefix == <<"u", "r", "n", ":", "l", "e", "x", ":", "v", "n", ":">>

\* lines 179-183 with the number lower-cased as the codes are
generateURN_LowerNumber(docType, authority, issueDate, number) ==
  IF docType = NULL \/ authority = NULL \/ number = NULL THEN TypeError
  ELSE UrnPrefix \o NormalizeCode(authority) \o <<":">>
       \o NormalizeCode(docType) \o <<":">> \o TemplateValue(issueDate)
       \o <<";">> \o ToLowerCase(NormalizeNumber(number))

generateURN(docType, authority, issueDate, number) ==
  IF docType = NULL \/ authority = NULL \/ number = NULL THEN TypeError
  ELSE UrnPrefix \o NormalizeCode(authority) \o <<":">>
       \o NormalizeCode(docType) \o <<":">> \o TemplateValue(issueDate)
       \o <<";">> \o NormalizeNumber(number)

(***************************************************************************)
(* generateCypher, lines 187-237.  The clock counts half days from         *)
(* 2026-11-01T12:00:00.000Z, so that the date changes with the first tick. *)
(***************************************************************************)
DigitChar(n) == CASE n = 0 -> "0" [] n = 1 -> "1" [] n = 2 -> "2"
                  [] n = 3 -> "3" [] n = 4 -> "4" [] n = 5 -> "5"
                  [] n = 6 -> "6" [] n = 7 -> "7" [] n = 8 -> "8"
                  [] n = 9 -> "9"

\* a number in a template literal
RECURSIVE NumChars(_)
NumChars(n) == IF n < 10 THEN <<DigitChar(n)>>
               ELSE NumChars(n \div 10) \o <<DigitChar(n % 10)>>

\* new Date().toISOString().split("T")[0]
IsoDate(now) ==
  <<"2", "0", "2", "6", "-", "1", "1", "-">> \o PadStart2(NumChars(1 + (now + 1) \div 2))

\* new Date().toISOString()
IsoTimestamp(now) ==
  IsoDate(now) \o <<"T">> \o (IF now % 2 = 0 THEN <<"1", "2">> ELSE <<"0", "0">>)
  \o <<":", "0", "0", ":", "0", "0", ".", "0", "0", "0", "Z">>

\* the numbers 0 and 5 as JS values: sequences no string equals
JsZero == <<"<number>", "0">>
JsFive == <<"<number>", "5">>

\* typeof x === "string" taken to hold of every value
IsString_Always(x) == x = x

\* typeof x === "string"
IsString(x) == x \notin {NULL, UNDEFINED, JsZero, JsFive}

\* a JS value used as a condition
Truthy(x) == x \notin {NULL, UNDEFINED, JsZero, <<>>}

\* lines 191-194
HeaderLines(md, now) ==
  << <<"// Vietnamese Legal Document Import - Neo4j 5.x">>,
     <<"// Generated: ">> \o IsoTimestamp(now),
     <<"// Document Type: ">> \o md.loaiVanBan,
     <<>> >>

\* lines 197-205 with lines 201 and 202 left out for an absent value
DocumentLines_OmitNull(md, u) ==
  << <<"// Create VanBan (Document)">>,
     <<"MERGE (vb:VanBan {urn: '">> \o u \o <<"'})">>,
     <<"SET vb += {">>,
     <<"  loaiVanBan: '">> \o md.loaiVanBan \o <<"',">> >>
  \o (IF Truthy(md.soHieu)
        THEN << <<"  soHieu: '">> \o md.soHieu \o <<"',">> >> ELSE <<>>)
  \o (IF Truthy(md.ngayBanHanh)
        THEN << <<"  ngayBanHanh: date('">> \o md.ngayBanHanh \o <<"'),">> >>
        ELSE <<>>)
  \o << <<"  hanhDongLapPhap: '">> \o md.hanhDongLapPhap \o <<"'">>,
        <<"};">>,
        <<>> >>

\* lines 197-205
DocumentLines(md, u) ==
  << <<"// Create VanBan (Document)">>,
     <<"MERGE (vb:VanBan {urn: '">> \o u \o <<"'})">>,
     <<"SET vb += {">>,
     <<"  loaiVanBan: '">> \o md.loaiVanBan \o <<"',">>,
     IF Truthy(md.soHieu)
       THEN <<"  soHieu: '">> \o md.soHieu \o <<"',">>
       ELSE <<"  soHieu: null,">>,
     IF Truthy(md.ngayBanHanh)
       THEN <<"  ngayBanHanh: date('">> \o md.ngayBanHanh \o <<"'),">>
       ELSE <<"  ngayBanHanh: null,">>,
     <<"  hanhDongLapPhap: '">> \o md.hanhDongLapPhap \o <<"'">>,
     <<"};">>,
     <<>> >>

\* line 210
VarName(depth, idx) == <<"c">> \o NumChars(depth) \o <<"_">> \o NumChars(idx)

\* line 214 with the level of the component appended to the key
ComponentKey_WithLevel(u, comp) ==
  u \o <<"#">> \o ToLowerCase(comp.type) \o <<"_">> \o comp.number
    \o <<"_">> \o NumChars(comp.level)

\* line 214: the key of a component
ComponentKey(u, comp) ==
  u \o <<"#">> \o ToLowerCase(comp.type) \o <<"_">> \o comp.number

\* lines 211-223 with the statement of line 222 moved before line 213
ComponentLines_EdgeFirst(comp, u, parentVar, varName) ==
  << <<"// Create ">> \o comp.type \o <<" ">> \o comp.number,
     <<"MATCH (">> \o parentVar \o <<")">>,
     <<"MERGE (">> \o parentVar \o <<")-[:HAS_COMPONENT]->(">> \o varName \o <<");">>,
     <<"MERGE (">> \o varName \o <<":ThanhPhanVanBan {">>,
     <<"  urn: '">> \o ComponentKey(u, comp) \o <<"'">>,
     <<"})">>,
     <<"SET ">> \o varName \o <<" += {">>,
     <<"  loaiThanhPhan: '">> \o comp.type \o <<"',">>,
     <<"  soThuTu: '">> \o comp.number \o <<"',">>,
     <<"  tieuDe: '">> \o EscapeQuotes(comp.title) \o <<"',">>,
     <<"  noiDung: '">>
       \o NewlinesToSpaces(EscapeQuotes(Substring0(comp.content, 500)))
       \o <<"'">>,
     <<"};">>,
     <<>> >>

\* lines 211-223: the block of one component
ComponentLines(comp, u, parentVar, varName) ==
  << <<"// Create ">> \o comp.type \o <<" ">> \o comp.number,
     <<"MATCH (">> \o parentVar \o <<")">>,
     <<"MERGE (">> \o varName \o <<":ThanhPhanVanBan {">>,
     <<"  urn: '">> \o ComponentKey(u, comp) \o <<"'">>,
     <<"})">>,
     <<"SET ">> \o varName \o <<" += {">>,
     <<"  loaiThanhPhan: '">> \o comp.type \o <<"',">>,
     <<"  soThuTu: '">> \o comp.number \o <<"',">>,
     <<"  tieuDe: '">> \o EscapeQuotes(comp.title) \o <<"',">>,
     <<"  noiDung: '">>
       \o NewlinesToSpaces(EscapeQuotes(Substring0(comp.content, 500)))
       \o <<"'">>,
     <<"};">>,
     <<"MERGE (">> \o parentVar \o <<")-[:HAS_COMPONENT]->(">> \o varName \o <<");">>,
     <<>> >>

\* lines 208-229 with the recursion of lines 225-227 moved before line 211
RECURSIVE createComponents_ChildrenFirst(_, _, _, _, _, _)
createComponents_ChildrenFirst(nds, components, u, parentVar, depth, idx) ==
  IF idx >= Len(components) THEN <<>>
  ELSE LET comp    == nds[components[idx + 1]]
           varName == VarName(depth, idx)
       IN  (IF Len(comp.children) > 0
              THEN createComponents_ChildrenFirst(nds, comp.children, u,
                                                  varName, depth + 1, 0)
              ELSE <<>>)
           \o ComponentLines(comp, u, parentVar, varName)
           \o createComponents_ChildrenFirst(nds, components, u, parentVar,
                                             depth, idx + 1)

\* lines 208-229: components.forEach from index idx (0-based) on
RECURSIVE createComponents(_, _, _, _, _, _)
createComponents(nds, components, u, parentVar, depth, idx) ==
  IF idx >= Len(components) THEN <<>>
  ELSE LET comp    == nds[components[idx + 1]]
           varName == VarName(depth, idx)
       IN  ComponentLines(comp, u, parentVar, varName)
           \o (IF Len(comp.children) > 0
                 THEN createComponents(nds, comp.children, u, varName, depth + 1, 0)
                 ELSE <<>>)
           \o createComponents(nds, components, u, parentVar, depth, idx + 1)

\* lines 231-234
HierarchyLines(nds, roots, u) ==
  IF Len(roots) > 0
    THEN << <<"// Create Component Hierarchy">> >>
         \o createComponents(nds, roots, u,
                             <<"vb:VanBan {urn: '">> \o u \o <<"'}">>, 0, 0)
    ELSE <<>>

\* the statements array of generateCypher(parsed, urn) called at time now
Statements(md, nds, roots, u, now) ==
  HeaderLines(md, now) \o DocumentLines(md, u) \o HierarchyLines(nds, roots, u)

\* line 236 with the time of the call appended to the urn of every key
generateCypher_ClockInKeys(md, nds, roots, u, now) ==
  Join(Statements(md, nds, roots, u \o IsoTimestamp(now), now))

\* line 236
generateCypher(md, nds, roots, u, now) == Join(Statements(md, nds, roots, u, now))

(***************************************************************************)
(* The input texts of the model: up to MaxLines lines of one of two sets.   *)
(***************************************************************************)
L_PhanThu == <<"P", "h", "aaf", "n", " ", "t", "h", "uws", " ", "I", ".", " ", "A">>
L_Phan == <<"P", "h", "aaf", "n", " ", "I", "I", ":", " ", "B">>
L_Chuong == <<"C", "h", "uw", "ow", "n", "g", " ", "I", ".", " ", "C">>
L_Muc == <<"M", "uj", "c", " ", "1", ".", " ", "D">>
L_Dieu1 == <<"DD", "i", "eef", "u", " ", "1", ".", " ", "E", "'">>
L_Dieu2 == <<"DD", "i", "eef", "u", " ", "2", ".", " ", "F">>
L_Khoan == <<"1", ".", " ", "x">>
L_Diem == <<"a", ")", " ", "z">>
L_Body == <<"b", "'", "c">>
L_Blank == <<" ">>
L_JointCircular == <<"T", "H", "OO", "N", "G", " ", "T", "UW", " ", "L", "I", "EE", "N", " ", "T", "IJ", "C", "H">>
L_Circular == <<"T", "h", "oo", "n", "g", " ", "t", "uw">>
L_Decree == <<"N", "G", "H", "IJ", " ", "DD", "IJ", "N", "H">>
L_Number == <<"S", "oos", ":", " ", "1", "'", "/", "2">>
L_NumberLabel == <<"S", "oos", ":">>
L_Date == <<"n", "g", "af", "y", " ", "9", " ", "t", "h", "as", "n", "g", " ", "6", " ", "n", "aw", "m", " ", "2", "0", "1", "5">>
L_Actions == <<"s", "uwr", "a", " ", "dd", "oor", "i", ",", " ", "b", "a", "n", " ", "h", "af", "n", "h">>

\* marker lines of every level, a body line and a blank line
StructLines ==
  {L_PhanThu, L_Phan, L_Chuong, L_Muc, L_Dieu1, L_Dieu2, L_Khoan, L_Diem, L_Body, L_Blank}

\* document type markers, number and date labels, action keywords
MetaLines ==
  {L_JointCircular, L_Circular, L_Decree, L_Number, L_NumberLabel, L_Date, L_Actions, L_Dieu2, L_Khoan}

SeqsUpTo(S, n) == UNION {[1..k -> S] : k \in 0..n}

Texts == {Join(ls) : ls \in SeqsUpTo(StructLines, MaxLines)
                           \cup SeqsUpTo(MetaLines, MaxLines)}

(***************************************************************************)
(* The input texts of direct calls of parseDocument: a decree with an      *)
(* article and its clauses, reference phrases, date and action phrases.    *)
(***************************************************************************)
L_Khoan2 == <<"2", ".", " ", "y">>
L_TieuMuc == <<"T", "i", "eer", "u", " ", "m", "uj", "c", " ", "1", ".", " ", "G">>
L_RefLaw == <<"DD", "i", "eef", "u", " ", "1", " ", "L", "u", "aaj", "t", " ", "x", ";">>
L_RefLawSpace == <<"DD", "i", "eef", "u", " ", "1", " ", "L", "u", "aaj", "t", " ", "x", " ", ";">>
L_RefLower == <<"dd", "i", "eef", "u", " ", "1", " ", "l", "u", "aaj", "t", " ", "x", ";">>
L_Date2 == <<"N", "g", "af", "y", " ", "1", "9", " ", "t", "h", "as", "n", "g", " ", "1", "2", " ", "n", "aw", "m", " ", "2", "0", "1", "6">>
L_DateLong == <<"n", "g", "af", "y", " ", "1", "2", "3", " ", "t", "h", "as", "n", "g", " ", "6", " ", "n", "aw", "m", " ", "2", "0", "1", "5">>
L_Replace == <<"T", "H", "A", "Y", " ", "T", "H", "EES">>
L_Amend == <<"b", "oor", " ", "s", "u", "n", "g", ",", " ", "s", "uwr", "a", " ", "dd", "oor", "i">>

ArticleLines == {L_Decree, L_Dieu2, L_Khoan, L_Khoan2, L_Body}

RefLines == {L_Dieu1, L_RefLaw, L_RefLawSpace, L_RefLower, L_TieuMuc}

PhraseLines == {L_Date, L_Date2, L_DateLong, L_Actions, L_Amend, L_Replace}

\* an article, a clause, body lines with and without blanks around them,
\* and a line of blanks
L_Padded == <<" ", " ", "p", " ">>
BodyLines == {L_Dieu2, L_Khoan, L_Body, L_Padded, L_Blank}

\* one marker line of each level, each nested in the one before it, and
\* the lines that may follow them
DeepChain == <<L_PhanThu, L_Chuong, L_Muc, L_Dieu1, L_Khoan, L_Diem>>
DeepTexts == {DeepChain \o tail : tail \in {<<>>, <<L_Diem>>, <<L_Body, L_Muc>>}}

ParseTexts == {Join(ls) : ls \in SeqsUpTo(ArticleLines, MaxArticleLines)
                                \cup SeqsUpTo(RefLines, MaxLines)
                                \cup SeqsUpTo(PhraseLines, MaxLines)
                                \cup SeqsUpTo(BodyLines, MaxArticleLines)
                                \cup DeepTexts}

\* the texts of the calls that follow the first one
LaterTexts ==
  {<<>>, L_Body, Join(<<L_Dieu2, L_Khoan>>), Join(<<L_RefLaw, L_RefLower>>),
   Join(<<L_Date2, L_Amend>>)}

(***************************************************************************)
(* State.                                                                  *)
(***************************************************************************)
VARIABLES
  route,           \* the handler that serves the request: "parse", "generate"
  request,         \* the body of the request: what req.json() finds
  response,        \* the response of the handler
  text,            \* parseDocument: its argument
  pc,              \* where the request is
  lines,           \* parseDocument: text.split("\n")
  idx,             \* parseDocument: the next line of the loop of line 103
  metadata,        \* parseDocument: docType, docNumber, issueDate, action
  nodes,           \* the ParsedComponent objects created so far
  structure,       \* parseDocument: the roots
  stack,           \* parseDocument: the open components
  currentContent,  \* parseDocument: the body lines not yet saved
  crossReferences, \* parseDocument: the cross-references
  parseCalls,      \* the number of calls of parseDocument
  urn,             \* the handler's urn
  clock,           \* the time
  cypher,          \* the last string generateCypher returned
  prevCypher,      \* the string it returned the call before
  calls            \* the number of calls of generateCypher

vars == <<route, request, response, text, pc, lines, idx, metadata, nodes,
          structure, stack, currentContent, crossReferences, parseCalls,
          urn, clock, cypher, prevCypher, calls>>

\* the request and its handler
requestVars == <<route, request>>

\* the locals of parseDocument that the loop of line 103 works on
loopVars == <<lines, idx, nodes, structure, stack, currentContent>>

\* what the generate handler computes after parseDocument
generateVars == <<urn, cypher, prevCypher, calls>>

NoMetadata == [loaiVanBan |-> NULL, soHieu |-> NULL, ngayBanHanh |-> NULL,
               coQuanBanHanh |-> NULL, tieuDe |-> NULL,
               hanhDongLapPhap |-> NULL]

NoRequest == [json |-> "none", text |-> UNDEFINED, type |-> UNDEFINED]

NoResponse == [status |-> 0]

\* the values of the text field that line 8 rejects: missing, null, 0, a
\* non-zero number, the empty string
RejectedTexts == {UNDEFINED, NULL, JsZero, JsFive, <<>>}

\* the values of the type field: missing, "urn"
RequestTypes == {UNDEFINED, <<"u", "r", "n">>}

\* the bodies of a request: one that is no JSON, the JSON null, an object
Requests ==
  {[json |-> j, text |-> UNDEFINED, type |-> UNDEFINED] : j \in {"invalid", "null"}}
  \cup {[json |-> "object", text |-> t, type |-> ty] :
          t \in RejectedTexts \cup Texts, ty \in RequestTypes}

Init ==
  /\ route \in {"parse", "generate"}
  /\ request \in Requests
  /\ route = "parse" => request.type = UNDEFINED
  /\ response = NoResponse
  /\ text = NULL
  /\ pc = "request"
  /\ lines = <<>>
  /\ idx = 1
  /\ metadata = NoMetadata
  /\ nodes = <<>>
  /\ structure = <<>>
  /\ stack = <<>>
  /\ currentContent = <<>>
  /\ crossReferences = <<>>
  /\ parseCalls = 0
  /\ urn = NULL
  /\ clock = 0
  /\ cypher = NULL
  /\ prevCypher = NULL
  /\ calls = 0

(***************************************************************************)
(* POST of api/generate/route.ts, lines 4-54, and POST of the parse        *)
(* route, lines 4-34: the request is read and checked.                     *)
(***************************************************************************)
\* the error message of the catch block of each handler
FailureMessage(r) ==
  IF r = "generate" THEN "Failed to generate output"
                    ELSE "Failed to parse document"

\* the catch block: lines 48-53 of generate, lines 28-33 of parse
Failure(r) == [status |-> 500, error |-> FailureMessage(r)]

\* lines 9-12 of both handlers
BadRequest == [status |-> 400, error |-> "Text content is required"]

\* lines 5-15: await req.json() throws on a body that is no JSON, the
\* destructuring of line 6 throws on null; line 8 rejects a text that is
\* falsy or no string; otherwise parseDocument is called on the text
Receive ==
  /\ pc = "request"
  /\ IF request.json # "object"
       THEN /\ response' = Failure(route)
            /\ pc' = "done"
            /\ text' = text
       ELSE IF ~Truthy(request.text) \/ ~IsString(request.text)
              THEN /\ response' = BadRequest
                   /\ pc' = "done"
                   /\ text' = text
              ELSE /\ text' = request.text
                   /\ pc' = "start"
                   /\ response' = response
  /\ UNCHANGED <<requestVars, loopVars, metadata, crossReferences, parseCalls,
                 generateVars, clock>>

(***************************************************************************)
(* parseDocument, lines 55-168.                                            *)
(***************************************************************************)
\* lines 56-101 with structure and stack kept from the call before, as if
\* lines 87-88 stood outside the function
ParseBegin_SharedTree ==
  /\ pc = "start"
  /\ lines' = Split(text)
  /\ metadata' = [loaiVanBan      |-> DetectDocType(text),
                  soHieu          |-> ExtractNumber(text),
                  ngayBanHanh     |-> ExtractDate(text),
                  coQuanBanHanh   |-> NULL,
                  tieuDe          |-> NULL,
                  hanhDongLapPhap |-> DetectAction(text)]
  /\ idx' = 1
  /\ currentContent' = <<>>
  /\ parseCalls' = parseCalls + 1
  /\ pc' = "loop"
  /\ UNCHANGED <<requestVars, response, text, nodes, structure, stack,
                 crossReferences, generateVars, clock>>

\* lines 56-101: the split, the classifier, the empty tree
ParseBegin ==
  /\ pc = "start"
  /\ lines' = Split(text)
  /\ metadata' = [loaiVanBan      |-> DetectDocType(text),
                  soHieu          |-> ExtractNumber(text),
                  ngayBanHanh     |-> ExtractDate(text),
                  coQuanBanHanh   |-> NULL,
                  tieuDe          |-> NULL,
                  hanhDongLapPhap |-> DetectAction(text)]
  /\ idx' = 1
  /\ nodes' = <<>>
  /\ structure' = <<>>
  /\ stack' = <<>>
  /\ currentContent' = <<>>
  /\ parseCalls' = parseCalls + 1
  /\ pc' = "loop"
  /\ UNCHANGED <<requestVars, response, text, crossReferences, generateVars,
                 clock>>

\* lines 114-121: the component of a line that pattern k matches
ComponentOf(k, line) == NewComponent(k, MatchRegex(k, line))

\* lines 128-135 with every component pushed to the roots
PlaceComponent_AtRoot(comp, id, saved, stk) ==
  /\ nodes' = Append(saved, comp)
  /\ structure' = Append(structure, id)
  /\ stack' = Append(stk, id)
  /\ currentContent' = <<>>

\* lines 128-135 with the bottom of the stack for its top at line 131
PlaceComponent_UnderBottom(comp, id, saved, stk) ==
  /\ nodes' = Append(IF Len(stk) = 0 THEN saved
                     ELSE PushChild(saved, stk[1], id),
                     comp)
  /\ structure' = IF Len(stk) = 0 THEN Append(structure, id) ELSE structure
  /\ stack' = Append(stk, id)
  /\ currentContent' = <<>>

\* lines 128-135: comp, the object number id, goes under the top of the
\* stack stk that the pops left, or among the roots, and is pushed
PlaceComponent(comp, id, saved, stk) ==
  /\ nodes' = Append(IF Len(stk) = 0 THEN saved
                     ELSE PushChild(saved, stk[Len(stk)], id),
                     comp)
  /\ structure' = IF Len(stk) = 0 THEN Append(structure, id) ELSE structure
  /\ stack' = Append(stk, id)
  /\ currentContent' = <<>>

\* lines 110-135: a marker line; saved is the tree once the body text read
\* so far is saved
OpenComponent(comp, saved) ==
  PlaceComponent(comp, Len(nodes) + 1, saved, PopStack(saved, stack, comp.level))

\* lines 139-142 with a blank line closing the open components
BodyLine_BlankCloses(line) ==
  /\ currentContent' = IF Trim(line) # <<>> THEN Append(currentContent, line)
                                           ELSE currentContent
  /\ stack' = IF Trim(line) # <<>> THEN stack ELSE <<>>
  /\ UNCHANGED <<nodes, structure>>

\* lines 139-142: a line that no pattern matches
BodyLine(line) ==
  /\ currentContent' = IF Trim(line) # <<>> THEN Append(currentContent, line)
                                           ELSE currentContent
  /\ UNCHANGED <<nodes, structure, stack>>

\* lines 104-143: the line, k the first pattern that matches it or 0
HandleLine(line, k) ==
  IF k # 0
    THEN OpenComponent(ComponentOf(k, line),
                       SaveContent(nodes, stack, currentContent))
    ELSE BodyLine(line)

\* lines 103-144: one pass of the loop over the lines
ParseLine ==
  /\ pc = "loop"
  /\ idx <= Len(lines)
  /\ HandleLine(lines[idx], FirstPattern(lines[idx]))
  /\ idx' = idx + 1
  /\ UNCHANGED <<requestVars, response, text, pc, lines, metadata,
                 crossReferences, parseCalls, generateVars, clock>>

\* lines 146-168: the last body text is saved, the cross-references are
\* extracted and the document is returned
ParseEnd ==
  /\ pc = "loop"
  /\ idx > Len(lines)
  /\ nodes' = SaveContent(nodes, stack, currentContent)
  /\ crossReferences' = CrossReferences(text)
  /\ pc' = "parsed"
  /\ UNCHANGED <<requestVars, response, text, lines, idx, metadata, structure,
                 stack, currentContent, parseCalls, generateVars, clock>>

(***************************************************************************)
(* POST of the parse route, lines 15-27.                                   *)
(***************************************************************************)
\* lines 16-27: the count and the response
RespondParse ==
  /\ pc = "parsed"
  /\ route = "parse"
  /\ response' =
       [status  |-> 200,
        success |-> TRUE,
        data    |-> [metadata |-> metadata, structure |-> structure,
                     crossReferences |-> crossReferences,
                     definitions |-> <<>>],
        stats   |-> [componentCount |-> countComponents(nodes, structure),
                     crossReferences |-> Len(crossReferences),
                     definitionsCount |-> 0]]
  /\ pc' = "done"
  /\ UNCHANGED <<requestVars, text, loopVars, metadata, crossReferences,
                 parseCalls, generateVars, clock>>

(***************************************************************************)
(* POST of api/generate/route.ts, lines 15-47.                             *)
(***************************************************************************)
\* a || b
OrElse(a, b) == IF Truthy(a) THEN a ELSE b

\* lines 18-23 and the catch of line 48: u is what generateURN returns or
\* throws
HandlerURNWith(u) ==
  IF u = TypeError
    THEN /\ response' = Failure(route)
         /\ pc' = "done"
         /\ urn' = urn
    ELSE /\ urn' = u
         /\ pc' = "urn"
         /\ response' = response

\* lines 18-23
HandlerURN ==
  /\ pc = "parsed"
  /\ route = "generate"
  /\ HandlerURNWith(generateURN(metadata.loaiVanBan,
                                OrElse(metadata.coQuanBanHanh,
                                       <<"q", "u", "o", "c", "h", "o", "i">>),
                                OrElse(metadata.ngayBanHanh, IsoDate(clock)),
                                OrElse(metadata.soHieu, <<"0", "0", "0">>)))
  /\ UNCHANGED <<requestVars, text, loopVars, metadata, crossReferences,
                 parseCalls, clock, cypher, prevCypher, calls>>

\* type = "cypher" of line 6 and type === "urn" of line 25
WantsURN(req) == req.type = <<"u", "r", "n">>

\* line 29: ngayBanHanh?.split("-")[0] || "0000"
YearOrZeros(date) ==
  IF date = NULL THEN <<"0", "0", "0", "0">>
  ELSE OrElse(SubSeq(date, 1, RunLenNot(date, 1, {"-"})), <<"0", "0", "0", "0">>)

\* line 29
WorkId(md) == md.loaiVanBan \o <<"-">> \o YearOrZeros(md.ngayBanHanh)

\* lines 25-31
RespondURN ==
  /\ pc = "urn"
  /\ WantsURN(request)
  /\ response' = [status |-> 200, success |-> TRUE, urn |-> urn,
                  workId |-> WorkId(metadata)]
  /\ pc' = "done"
  /\ UNCHANGED <<requestVars, text, loopVars, metadata, crossReferences,
                 parseCalls, generateVars, clock>>

\* lines 34-47, and the same call made again on the same parsed document
\* and urn; the cypher field of the response is the variable cypher
GenerateCypher ==
  /\ pc \in {"urn", "generated"}
  /\ ~WantsURN(request)
  /\ calls < 2
  /\ cypher' = generateCypher(metadata, nodes, structure, urn, clock)
  /\ prevCypher' = cypher
  /\ calls' = calls + 1
  /\ response' =
       [status  |-> 200,
        success |-> TRUE,
        urn     |-> urn,
        stats   |-> [documentType |-> metadata.loaiVanBan,
                     componentCount |-> countComponents(nodes, structure),
                     crossReferences |-> Len(crossReferences)]]
  /\ pc' = "generated"
  /\ UNCHANGED <<requestVars, text, loopVars, metadata, crossReferences,
                 parseCalls, urn, clock>>

\* time passes between the calls
Tick ==
  /\ pc \in {"parsed", "generated"}
  /\ clock < MaxClock
  /\ clock' = clock + 1
  /\ UNCHANGED <<requestVars, response, text, pc, loopVars, metadata,
                 crossReferences, parseCalls, generateVars>>

Next ==
  \/ Receive
  \/ ParseBegin
  \/ ParseLine
  \/ ParseEnd
  \/ RespondParse
  \/ HandlerURN
  \/ RespondURN
  \/ GenerateCypher
  \/ Tick

Spec == Init /\ [][Next]_vars

(***************************************************************************)
(* parseDocument called directly, one call after the other: a call starts  *)
(* with whatever the call before it left behind.                           *)
(***************************************************************************)
InitParse ==
  /\ route = "direct"
  /\ request = NoRequest
  /\ response = NoResponse
  /\ text \in ParseTexts
  /\ pc = "start"
  /\ lines = <<>>
  /\ idx = 1
  /\ metadata = NoMetadata
  /\ nodes = <<>>
  /\ structure = <<>>
  /\ stack = <<>>
  /\ currentContent = <<>>
  /\ crossReferences = <<>>
  /\ parseCalls = 0
  /\ urn = NULL
  /\ clock = 0
  /\ cypher = NULL
  /\ prevCypher = NULL
  /\ calls = 0

\* the next call of parseDocument, on any text
NextCall ==
  /\ pc = "parsed"
  /\ parseCalls < MaxCalls
  /\ text' \in LaterTexts
  /\ pc' = "start"
  /\ UNCHANGED <<requestVars, response, loopVars, metadata, crossReferences,
                 parseCalls, generateVars, clock>>

NextParse == ParseBegin \/ ParseLine \/ ParseEnd \/ NextCall

SpecParse == InitParse /\ [][NextParse]_vars

(***************************************************************************)
(* generateURN as a function of its four arguments: the arguments are the  *)
(* fields of metadata, drawn from the sets below.                          *)
(***************************************************************************)
U_HienPhap == <<"H", "I", "E", "N", "_", "P", "H", "A", "P">>
U_QuocHoi  == <<"Q", "U", "O", "C", "_", "H", "O", "I">>
U_Date     == <<"2", "0", "1", "3", "-", "1", "1", "-", "2", "8">>
U_Number   == <<"7", "1", "/", "Q", "H", "1", "3">>

UrnTypes ==
  {<<"A">>, <<"a">>, <<"A", "_">>, <<"c">>, <<"b", ":", "c">>, <<"c", ":", "1">>,
   U_HienPhap}

UrnAuthorities == {<<"q">>, <<"Q", "_">>, <<"q", ":", "b">>, U_QuocHoi}

UrnDates ==
  {NULL, <<"n", "u", "l", "l">>, <<"1">>, <<"2">>, <<"1", ":", "2">>, U_Date}

UrnNumbers ==
  {NULL, <<>>, <<"7", "/", "Q">>, <<"7", "-", "Q">>, <<"7", "-", "q">>,
   <<"7", "'", "Q">>, U_Number}

UrnInputs ==
  {[NoMetadata EXCEPT !.loaiVanBan = t, !.coQuanBanHanh = a,
                      !.ngayBanHanh = d, !.soHieu = n] :
     t \in UrnTypes, a \in UrnAuthorities, d \in UrnDates, n \in UrnNumbers}

InitURN ==
  /\ metadata \in UrnInputs
  /\ pc = "urn_call"
  /\ route = "direct"
  /\ request = NoRequest
  /\ response = NoResponse
  /\ text = <<>>
  /\ lines = <<>>
  /\ idx = 1
  /\ nodes = <<>>
  /\ structure = <<>>
  /\ stack = <<>>
  /\ currentContent = <<>>
  /\ crossReferences = <<>>
  /\ parseCalls = 0
  /\ urn = NULL
  /\ clock = 0
  /\ cypher = NULL
  /\ prevCypher = NULL
  /\ calls = 0

\* lines 171-184 applied to the four fields
CallGenerateURN ==
  /\ pc = "urn_call"
  /\ urn' = generateURN(metadata.loaiVanBan, metadata.coQuanBanHanh,
                        metadata.ngayBanHanh, metadata.soHieu)
  /\ pc' = "urn_done"
  /\ UNCHANGED <<requestVars, response, text, loopVars, metadata,
                 crossReferences, parseCalls, clock, cypher, prevCypher, calls>>

NextURN == CallGenerateURN

SpecURN == InitURN /\ [][NextURN]_vars

(***************************************************************************)
(* Properties.                                                             *)
(***************************************************************************)
\* the nodes of a forest, parent first, children in list order
RECURSIVE Preorder(_, _)
Preorder(nds, components) ==
  IF Len(components) = 0 THEN <<>>
  ELSE <<Head(components)>> \o Preorder(nds, nds[Head(components)].children)
       \o Preorder(nds, Tail(components))

\* the lines of ls that match a marker pattern, in order
MarkerLines(ls) == SelectSeq(ls, LAMBDA l : FirstPattern(l) # 0)

\* node c is a child of node p
IsChild(c, p) == \E j \in 1..Len(nodes[p].children) : nodes[p].children[j] = c

\* the position of x in the sequence s
PosIn(s, x) == CHOOSE k \in 1..Len(s) : s[k] = x

\* the indices of the lines of ls that start with piece a and end with piece z
LinesLike(ls, a, z) ==
  {i \in 1..Len(ls) : Len(ls[i]) >= 2 /\ ls[i][1] = a /\ ls[i][Len(ls[i])] = z}

\* the values between the first and the last piece of the lines of ls that
\* start with piece a and end with piece z, in order
ValuesOf(ls, a, z) ==
  LET hits == SelectSeq(ls, LAMBDA l : Len(l) >= 2 /\ l[1] = a /\ l[Len(l)] = z)
  IN  [k \in 1..Len(hits) |-> SubSeq(hits[k], 2, Len(hits[k]) - 1)]

----------------------------------------------------------------------------
\* C1: in the forest parseDocument builds, the level of every component is
\* strictly greater than the level of its parent.
LevelInvariant ==
  \A p \in 1..Len(nodes) : \A c \in 1..Len(nodes) :
    IsChild(c, p) => nodes[c].level > nodes[p].level

\* a returned forest with a parent, a child, and a component that closed one
LevelInvariantWitness ==
  /\ pc = "parsed"
  /\ Len(structure) >= 2
  /\ \E p \in 1..Len(nodes) : Len(nodes[p].children) >= 1

----------------------------------------------------------------------------
\* C2: the pre-order traversal of the forest lists the components in the
\* order of their marker lines in the text: the k-th component of the
\* traversal is the k-th object created, and it is the component of the
\* k-th marker line among the lines read so far.
OrderPreservation ==
  LET pre == Preorder(nodes, structure)
      ml  == MarkerLines(SubSeq(lines, 1, idx - 1))
  IN  /\ Len(pre) = Len(ml)
      /\ \A k \in 1..Len(pre) :
           /\ pre[k] = k
           /\ LET kth == NewComponent(FirstPattern(ml[k]),
                                      MatchRegex(FirstPattern(ml[k]), ml[k]))
              IN  /\ nodes[k].type = kth.type
                  /\ nodes[k].number = kth.number
                  /\ nodes[k].title = kth.title

\* a returned forest in which one parent has two children
OrderPreservationWitness ==
  /\ pc = "parsed"
  /\ \E p \in 1..Len(nodes) : Len(nodes[p].children) >= 2

----------------------------------------------------------------------------
\* C3 as stated: two calls of generateCypher on the same parsed document
\* and urn return identical strings, whatever the clock reads at each call.
GenerateTwiceIdentical ==
  calls = 2 => cypher = prevCypher

\* C3 as amended: the two strings have the same lines except the second,
\* the "// Generated:" comment, which carries the time of the call.
GenerateTwiceIdenticalButTimestamp ==
  calls = 2 =>
    LET a == Split(prevCypher)
        b == Split(cypher)
    IN  /\ Len(a) = Len(b)
        /\ \A k \in 1..Len(a) : k # 2 => a[k] = b[k]
        /\ a[2][1] = "// Generated: " /\ b[2][1] = "// Generated: "

\* two calls at different times on a document that has components
GenerateTwiceWitness ==
  /\ calls = 2
  /\ cypher # prevCypher
  /\ Len(nodes) >= 2

----------------------------------------------------------------------------
\* the normal form of the four arguments: type and authority lower-cased
\* with underscores removed, the date unchanged, the number with "/"
\* replaced by "-" and the other characters outside [A-Za-z0-9-] removed
UrnNormalForm(md) ==
  <<NormalizeCode(md.loaiVanBan), NormalizeCode(md.coQuanBanHanh),
    md.ngayBanHanh, NormalizeNumber(md.soHieu)>>

AllStrings(md) == md.ngayBanHanh # NULL /\ md.soHieu # NULL

NoColonInCodes(md) ==
  /\ \A k \in 1..Len(md.loaiVanBan) : md.loaiVanBan[k] # ":"
  /\ \A k \in 1..Len(md.coQuanBanHanh) : md.coQuanBanHanh[k] # ":"

UrnOf(md) ==
  generateURN(md.loaiVanBan, md.coQuanBanHanh, md.ngayBanHanh, md.soHieu)

\* C4 as stated: any two tuples of strings whose normal forms differ get
\* different urns.
URNInjective ==
  (pc = "urn_done" /\ AllStrings(metadata)) =>
    \A other \in UrnInputs :
      (AllStrings(other) /\ UrnNormalForm(other) # UrnNormalForm(metadata))
        => UrnOf(other) # urn

\* C4 as amended: any two tuples of strings whose type and authority
\* contain no ":" and whose normal forms differ get different urns.
URNInjectiveWithoutColon ==
  (pc = "urn_done" /\ AllStrings(metadata) /\ NoColonInCodes(metadata)) =>
    \A other \in UrnInputs :
      (AllStrings(other) /\ NoColonInCodes(other)
       /\ UrnNormalForm(other) # UrnNormalForm(metadata))
        => UrnOf(other) # urn

\* a urn returned for a number that normalisation changes, and another
\* tuple of another normal form, with a different urn
URNInjectiveWitness ==
  /\ pc = "urn_done"
  /\ NoColonInCodes(metadata)
  /\ metadata.soHieu = <<"7", "/", "Q">>
  /\ metadata.ngayBanHanh = <<"1", ":", "2">>
  /\ urn # TypeError
  /\ \E other \in UrnInputs :
       /\ AllStrings(other) /\ NoColonInCodes(other)
       /\ other.loaiVanBan = metadata.loaiVanBan
       /\ other.soHieu = <<"7", "'", "Q">>
       /\ UrnNormalForm(other) # UrnNormalForm(metadata)
       /\ UrnOf(other) # urn

----------------------------------------------------------------------------
\* the component keys in the lines ls of an output, in order
ComponentKeys(ls) == ValuesOf(ls, "  urn: '", "'")

\* no two roots and no two children of one parent have the same type and
\* number
NoSiblingDuplicates ==
  LET distinct(cs) ==
        \A i, j \in 1..Len(cs) :
          (i # j) => \/ nodes[cs[i]].type # nodes[cs[j]].type
                     \/ nodes[cs[i]].number # nodes[cs[j]].number
  IN  /\ distinct(structure)
      /\ \A p \in 1..Len(nodes) : distinct(nodes[p].children)

\* C5: when no two siblings have the same type and ordinal, the urn keys
\* of the component upserts of one output are pairwise distinct.
ComponentKeysDistinct ==
  (pc = "generated" /\ NoSiblingDuplicates) =>
    LET keys == ComponentKeys(Split(cypher))
    IN  \A i, j \in 1..Len(keys) : (i # j) => keys[i] # keys[j]

----------------------------------------------------------------------------
\* the pieces that open a literal closed by the piece "'" at the end of
\* the line
OpensToLineEnd == {"  urn: '", "  noiDung: '", "  hanhDongLapPhap: '"}

\* the positions of a line where a one-quote character of a value stands
ValueQuotes(line) ==
  {i \in 1..Len(line) :
     /\ line[i] = QUOTE
     /\ ~(i = Len(line) /\ line[1] \in OpensToLineEnd)}

\* C6: in the output every one-quote character of a value is escaped by
\* a backslash before it.
QuotesEscaped ==
  pc = "generated" =>
    LET ls == Split(cypher)
    IN  \A n \in 1..Len(ls) :
          \A i \in ValueQuotes(ls[n]) : i > 1 /\ ls[n][i - 1] = BACKSLASH

----------------------------------------------------------------------------
LabelChars == AsciiLower \cup AsciiUpper \cup Digits

\* the position of the separator of a marker line: its first ".", ":"
\* or ")"
SeparatorPos(line) == 1 + RunLenNot(line, 1, {".", ":", ")"})

\* the numeral or letter label of a marker line: the letters and digits
\* that end just before the separator
LabelOf(line) ==
  LET s == SeparatorPos(line)
      p == CHOOSE q \in 1..s :
             /\ \A k \in q..(s - 1) : line[k] \in LabelChars
             /\ (q > 1 => line[q - 1] \notin LabelChars)
  IN  SubSeq(line, p, s - 1)

\* the text after the separator of a marker line, less the white space
\* that follows the separator
TitleOf(line) ==
  LET s == SeparatorPos(line)
  IN  From(line, s + 1 + RunLen(line, s + 1, Whitespace))

\* C7: the number of every component is the numeral or letter label of
\* its marker line and its title is the text after the separator; so the
\* number of a PHAN component is its numeral, with or without the word
\* before it.
OrdinalIsLabel ==
  LET ml == MarkerLines(SubSeq(lines, 1, idx - 1))
  IN  \A k \in 1..Len(nodes) :
        k <= Len(ml) =>
          /\ nodes[k].number = LabelOf(ml[k])
          /\ nodes[k].title = TitleOf(ml[k])

----------------------------------------------------------------------------
\* the component blocks in the lines ls of an output, in order: the type,
\* the number and the title of each
BlockTypes(ls)   == ValuesOf(ls, "  loaiThanhPhan: '", "',")
BlockNumbers(ls) == ValuesOf(ls, "  soThuTu: '", "',")
BlockTitles(ls)  == ValuesOf(ls, "  tieuDe: '", "',")

\* the indices of the upsert lines in the lines ls of an output
DocumentMerges(ls) == LinesLike(ls, "MERGE (vb:VanBan {urn: '", "'})")
ComponentMerges(ls) == LinesLike(ls, "MERGE (", ":ThanhPhanVanBan {")
EdgeMerges(ls) ==
  {i \in LinesLike(ls, "MERGE (", ");") :
     \E j \in 1..Len(ls[i]) : ls[i][j] = ")-[:HAS_COMPONENT]->("}

\* C8: for a tree of N components the output has exactly one document
\* upsert, N component upserts and N HAS_COMPONENT edge upserts; the
\* document upsert comes first, the k-th component block is the block of
\* the k-th component of the pre-order traversal, and the block of every
\* parent comes before the blocks of its children.
StatementStructure ==
  pc = "generated" =>
    LET n   == countComponents(nodes, structure)
        pre == Preorder(nodes, structure)
        ls  == Split(cypher)
        dm  == DocumentMerges(ls)
        cm  == ComponentMerges(ls)
        em  == EdgeMerges(ls)
        bty == BlockTypes(ls)
        bnu == BlockNumbers(ls)
        bti == BlockTitles(ls)
    IN  /\ Cardinality(dm) = 1
        /\ Cardinality(cm) = n
        /\ Cardinality(em) = n
        /\ \A d \in dm : \A c \in cm \cup em : d < c
        /\ Len(bty) = n /\ Len(bnu) = n /\ Len(bti) = n
        /\ Len(pre) = n
        /\ \A k \in 1..n :
             /\ bty[k] = nodes[pre[k]].type
             /\ bnu[k] = nodes[pre[k]].number
             /\ bti[k] = EscapeQuotes(nodes[pre[k]].title)
        /\ \A p, c \in 1..Len(nodes) :
             IsChild(c, p) => PosIn(pre, p) < PosIn(pre, c)

\* the output for one root with one child: 1, 2 and 2
StatementStructureWitness ==
  /\ pc = "generated"
  /\ Len(nodes) = 2
  /\ Len(structure) = 1
  /\ IsChild(2, 1)
  /\ Cardinality(ComponentMerges(Split(cypher))) = 2
  /\ Cardinality(EdgeMerges(Split(cypher))) = 2

----------------------------------------------------------------------------
\* C9: generateURN raises no error whether date and number are present or
\* null; a null input appears as "null" in the returned string, which has
\* the form urn:lex:vn:<authority>:<type>:<date>;<number>.
URNNeverThrows ==
  pc = "urn_done" =>
    /\ urn # TypeError
    /\ urn = UrnPrefix \o NormalizeCode(metadata.coQuanBanHanh) \o <<":">>
             \o NormalizeCode(metadata.loaiVanBan) \o <<":">>
             \o (IF metadata.ngayBanHanh = NULL THEN <<"n", "u", "l", "l">>
                 ELSE metadata.ngayBanHanh)
             \o <<";">>
             \o (IF metadata.soHieu = NULL THEN <<"n", "u", "l", "l">>
                 ELSE NormalizeNumber(metadata.soHieu))

----------------------------------------------------------------------------
JointCircularMarker ==
  <<"T", "H", "OO", "N", "G", " ", "T", "UW", " ",
    "L", "I", "EE", "N", " ", "T", "IJ", "C", "H">>

\* pattern a is a proper beginning of pattern b, case folded
ExtendsPattern(b, a) == Len(a) < Len(b) /\ MatchesAtCI(b, 1, a)

\* C10: the document type is the code of the first entry of
\* DOC_TYPE_PATTERNS, in table order, whose pattern matches the beginning
\* of the text without regard to case, VAN_BAN when there is none; every
\* pattern that extends another one stands before it in the table; and a
\* text that begins with the joint-circular marker is THONG_TU_LIEN_TICH.
ClassificationPriority ==
  parseCalls > 0 /\ pc # "start" =>
    LET ks == {k \in 1..Len(DOC_TYPE_PATTERNS) :
                 MatchesAtCI(text, 1, DOC_TYPE_PATTERNS[k][1])}
    IN  /\ ks = {} => metadata.loaiVanBan = <<"V", "A", "N", "_", "B", "A", "N">>
        /\ \A k \in ks :
             (\A j \in ks : k <= j) =>
               metadata.loaiVanBan = DOC_TYPE_PATTERNS[k][2]
        /\ \A i, j \in 1..Len(DOC_TYPE_PATTERNS) :
             ExtendsPattern(DOC_TYPE_PATTERNS[j][1], DOC_TYPE_PATTERNS[i][1])
               => j < i
        /\ MatchesAtCI(text, 1, JointCircularMarker) =>
             metadata.loaiVanBan =
               <<"T", "H", "O", "N", "G", "_", "T", "U", "_",
                 "L", "I", "E", "N", "_", "T", "I", "C", "H">>

\* a parsed text that begins with the joint-circular marker, which the
\* circular pattern matches too
ClassificationPriorityWitness ==
  /\ pc = "parsed"
  /\ MatchesAtCI(text, 1, JointCircularMarker)
  /\ MatchesAtCI(text, 1, <<"T", "H", "OO", "N", "G", " ", "T", "UW">>)
  /\ metadata.loaiVanBan = <<"T", "H", "O", "N", "G", "_", "T", "U", "_",
                            "L", "I", "E", "N", "_", "T", "I", "C", "H">>


\* C11: parseDocument("") returns, with an empty structure, no
\* cross-reference, the document type VAN_BAN, a null number, a null date
\* and the action BAN_HANH.
EmptyInput ==
  (pc = "parsed" /\ text = <<>>) =>
    /\ structure = <<>>
    /\ nodes = <<>>
    /\ crossReferences = <<>>
    /\ metadata.loaiVanBan = <<"V", "A", "N", "_", "B", "A", "N">>
    /\ metadata.soHieu = NULL
    /\ metadata.ngayBanHanh = NULL
    /\ metadata.hanhDongLapPhap = <<"B", "A", "N", "_", "H", "A", "N", "H">>

\* the call on the empty string has returned: its one line is empty
EmptyInputWitness ==
  /\ pc = "parsed"
  /\ text = <<>>
  /\ parseCalls = 1
  /\ lines = << <<>> >>


\* the request has been answered
Responded == response # NoResponse

\* the text of the request is missing, empty or not a string
TextRejected ==
  /\ request.json = "object"
  /\ \/ request.text = UNDEFINED
     \/ request.text = <<>>
     \/ request.text \in {NULL, JsZero, JsFive}

\* handling the request raises an exception: the body is no JSON object
RequestThrows == request.json \in {"invalid", "null"}

\* C12: in both handlers a request whose text is missing, empty or not a
\* string is answered with status 400 and parseDocument is never called for
\* it; a request whose handling raises an exception is answered with status
\* 500 and the fixed message of the handler; every other request is
\* answered with success: true.
BoundaryErrorHandling ==
  /\ TextRejected => parseCalls = 0
  /\ Responded =>
       IF TextRejected
         THEN response.status = 400
       ELSE IF RequestThrows
         THEN /\ response.status = 500
              /\ response.error = IF route = "generate"
                                    THEN "Failed to generate output"
                                    ELSE "Failed to parse document"
       ELSE /\ response.status = 200
            /\ response.success = TRUE

\* a request whose text is the number 5 has been answered by the generate
\* handler
BoundaryErrorHandlingWitness ==
  /\ Responded
  /\ route = "generate"
  /\ request.json = "object"
  /\ request.text = JsFive
  /\ pc = "done"


\* the set of the elements of a sequence
Elements(a) == {a[k] : k \in 1..Len(a)}

\* C13: crossReferences holds no two equal strings and holds every distinct
\* matched span of the reference pattern, so that two spans are merged only
\* when they are the same string.
ReferenceDeduplication ==
  pc = "parsed" =>
    /\ \A i, j \in 1..Len(crossReferences) :
         i # j => crossReferences[i] # crossReferences[j]
    /\ Elements(crossReferences) = Elements(MatchAllFrom(text, 1))

\* a text with a span matched twice and with two spans that differ in case
\* only: the first pair is merged, the second is not
ReferenceDeduplicationWitness ==
  /\ pc = "parsed"
  /\ Len(MatchAllFrom(text, 1)) > Len(crossReferences)
  /\ \E i, j \in 1..Len(crossReferences) :
       /\ i # j
       /\ ToLowerCase(crossReferences[i]) = ToLowerCase(crossReferences[j])


\* the response carries the count of line 17 (parse) or line 35 (generate)
HasCount == Responded /\ response.status = 200 /\ "stats" \in DOMAIN response

\* C14: countComponents(structure) is the number of nodes of the forest,
\* every root and every descendant counted once, and 0 for the empty forest.
CountIsForestSize ==
  HasCount =>
    /\ response.stats.componentCount
         = Cardinality(Elements(Preorder(nodes, structure)))
    /\ response.stats.componentCount = Len(nodes)
    /\ structure = <<>> => response.stats.componentCount = 0

\* a forest of one root, its child and its grandchild has been counted
CountIsForestSizeWitness ==
  /\ HasCount
  /\ response.stats.componentCount = 3
  /\ Len(structure) = 1
  /\ Len(nodes[structure[1]].children) = 1
  /\ Len(nodes[nodes[structure[1]].children[1]].children) = 1


\* the Article lines and the numbered clause lines among the input lines
IsArticleLine(l) == l \in {L_Dieu1, L_Dieu2}
IsClauseLine(l) == l \in {L_Khoan, L_Khoan2}

\* the lines of a text that are marker lines, in order
MarkersOf(ls) ==
  SelectSeq(ls, LAMBDA l : l \in {L_PhanThu, L_Phan, L_Chuong, L_Muc,
                                    L_Dieu1, L_Dieu2, L_Khoan, L_Khoan2, L_Diem})

\* the text begins with the decree marker, and its marker lines are one
\* Article line followed by clause lines only
ArticleWithClauses ==
  /\ pc = "parsed"
  /\ lines[1] = L_Decree
  /\ Len(MarkersOf(lines)) >= 1
  /\ IsArticleLine(MarkersOf(lines)[1])
  /\ \A k \in 2..Len(MarkersOf(lines)) : IsClauseLine(MarkersOf(lines)[k])

\* C15: such a text gives the type NGHI_DINH and one root of type DIEU
\* whose children are the KHOAN components of the k clause lines in order,
\* so that countComponents is k + 1.
ArticleTree ==
  ArticleWithClauses =>
    LET ms == MarkersOf(lines)
        k  == Len(ms) - 1
    IN  /\ metadata.loaiVanBan = <<"N", "G", "H", "I", "_", "D", "I", "N", "H">>
        /\ Len(structure) = 1
        /\ nodes[structure[1]].type = <<"D", "I", "E", "U">>
        /\ Len(nodes[structure[1]].children) = k
        /\ \A j \in 1..k :
             LET c == nodes[nodes[structure[1]].children[j]]
             IN  /\ c.type = <<"K", "H", "O", "A", "N">>
                 /\ c.number = <<ms[j + 1][1]>>
                 /\ c.children = <<>>
        /\ countComponents(nodes, structure) = k + 1

\* the decree with one article and two clauses: three components
ArticleTreeWitness ==
  /\ ArticleWithClauses
  /\ Len(MarkersOf(lines)) = 3
  /\ MarkersOf(lines)[2] # MarkersOf(lines)[3]
  /\ countComponents(nodes, structure) = 3


\* what parseDocument returns
ParseResult ==
  [metadata |-> metadata, nodes |-> nodes, structure |-> structure,
   crossReferences |-> crossReferences]

\* the metadata of a text with no type marker, number, date or action
DefaultMetadata ==
  [NoMetadata EXCEPT !.loaiVanBan = <<"V", "A", "N", "_", "B", "A", "N">>,
                     !.hanhDongLapPhap = <<"B", "A", "N", "_", "H", "A", "N", "H">>]

NoComponents ==
  [metadata |-> DefaultMetadata, nodes |-> <<>>, structure |-> <<>>,
   crossReferences |-> <<>>]

\* what parseDocument returns for each text of LaterTexts when the call is
\* the only one
ResultAlone(t) ==
  CASE t = <<>> -> NoComponents
    [] t = L_Body -> NoComponents
    [] t = Join(<<L_Dieu2, L_Khoan>>) ->
         [NoComponents EXCEPT
            !.nodes = << [type |-> <<"D", "I", "E", "U">>, level |-> 4,
                          number |-> <<"2">>, title |-> <<"F">>,
                          content |-> <<>>, children |-> <<2>>],
                         [type |-> <<"K", "H", "O", "A", "N">>, level |-> 5,
                          number |-> <<"1">>, title |-> <<"x">>,
                          content |-> <<>>, children |-> <<>>] >>,
            !.structure = <<1>>,
            !.crossReferences = << SubSeq(L_Dieu2, 1, 6) >>]
    [] t = Join(<<L_RefLaw, L_RefLower>>) ->
         [NoComponents EXCEPT
            !.crossReferences = << SubSeq(L_RefLaw, 1, 13),
                                   SubSeq(L_RefLower, 1, 13) >>]
    [] t = Join(<<L_Date2, L_Amend>>) ->
         [NoComponents EXCEPT
            !.metadata.ngayBanHanh =
               <<"2", "0", "1", "6", "-", "1", "2", "-", "1", "9">>,
            !.metadata.hanhDongLapPhap = <<"S", "U", "A", "_", "D", "O", "I">>]

ActionsIn(t) ==
  {k \in 1..Len(LEGISLATIVE_ACTIONS) :
     \E p \in 1..(Len(t) - Len(LEGISLATIVE_ACTIONS[k][1]) + 1) :
       SubSeq(ToLowerCase(t), p, p + Len(LEGISLATIVE_ACTIONS[k][1]) - 1)
         = LEGISLATIVE_ACTIONS[k][1]}

\* C17: hanhDongLapPhap is the code of the first entry, in table order, of
\* LEGISLATIVE_ACTIONS whose keyword occurs in the lower-cased text, and
\* BAN_HANH when no keyword occurs.
LegislativeAction ==
  pc = "parsed" =>
    LET ks == ActionsIn(text)
    IN  /\ ks = {} => metadata.hanhDongLapPhap
                        = <<"B", "A", "N", "_", "H", "A", "N", "H">>
        /\ \A k \in ks :
             (\A j \in ks : k <= j) =>
               metadata.hanhDongLapPhap = LEGISLATIVE_ACTIONS[k][2]

\* the text names the third keyword of the table before the second one,
\* and the action is the code of the second
LegislativeActionWitness ==
  /\ pc = "parsed"
  /\ ActionsIn(text) = {2, 3}
  /\ FirstOccurrence(ToLowerCase(text), LEGISLATIVE_ACTIONS[3][1])
       < FirstOccurrence(ToLowerCase(text), LEGISLATIVE_ACTIONS[2][1])
  /\ metadata.hanhDongLapPhap = <<"S", "U", "A", "_", "D", "O", "I">>


\* the date that the day/month/year phrase of an input line stands for,
\* NULL for a line with no such phrase: day 9, month 6, year 2015 in
\* L_Date, day 19, month 12, year 2016 in L_Date2; the day of L_DateLong
\* has three digits, which is no phrase
DateOfLine(l) ==
  CASE l = L_Date  -> <<"2", "0", "1", "5", "-", "0", "6", "-", "0", "9">>
    [] l = L_Date2 -> <<"2", "0", "1", "6", "-", "1", "2", "-", "1", "9">>
    [] OTHER -> NULL

\* the lines of the text that hold a date phrase, in order
DatedLines == SelectSeq(lines, LAMBDA l : DateOfLine(l) # NULL)

\* C18: ngayBanHanh is the date of the first day/month/year phrase of the
\* text as YYYY-MM-DD, day and month padded to two digits, whatever phrases
\* follow it, and null when the text has no such phrase.
IssuanceDate ==
  pc = "parsed" =>
    metadata.ngayBanHanh
      = IF DatedLines = <<>> THEN NULL ELSE DateOfLine(DatedLines[1])

\* the text holds two different date phrases, and the date is the one of
\* the first, which follows a line with no phrase
IssuanceDateWitness ==
  /\ pc = "parsed"
  /\ Len(DatedLines) = 2
  /\ DatedLines[1] # DatedLines[2]
  /\ DateOfLine(lines[1]) = NULL
  /\ metadata.ngayBanHanh = DateOfLine(DatedLines[1])


----------------------------------------------------------------------------
\* the seven component types with their levels
SevenLevels ==
  { [type |-> <<"P", "H", "A", "N">>, level |-> 1],
    [type |-> <<"C", "H", "U", "O", "N", "G">>, level |-> 2],
    [type |-> <<"M", "U", "C">>, level |-> 3],
    [type |-> <<"D", "I", "E", "U">>, level |-> 4],
    [type |-> <<"K", "H", "O", "A", "N">>, level |-> 5],
    [type |-> <<"D", "I", "E", "M">>, level |-> 6],
    [type |-> <<"T", "I", "E", "U", "_", "M", "U", "C">>, level |-> 7] }

\* the text has a Sub-section marker line
HasSubSectionLine == \E i \in 1..Len(lines) : lines[i] = L_TieuMuc

\* C19: the marker table has an entry for each of the seven component
\* types with its level, a Sub-section marker line produces a level-7
\* component, and the level of every component is the one of its type.
SevenLevelTable ==
  (pc = "parsed" /\ HasSubSectionLine) =>
    /\ \A e \in SevenLevels :
         \E k \in 1..Len(componentPatterns) : componentPatterns[k] = e
    /\ \E n \in 1..Len(nodes) : nodes[n].level = 7
    /\ \A n \in 1..Len(nodes) :
         [type |-> nodes[n].type, level |-> nodes[n].level] \in SevenLevels


----------------------------------------------------------------------------
\* the component types in lower case
LowerType(type) ==
  CASE type = <<"P", "H", "A", "N">> -> <<"p", "h", "a", "n">>
    [] type = <<"C", "H", "U", "O", "N", "G">> -> <<"c", "h", "u", "o", "n", "g">>
    [] type = <<"M", "U", "C">> -> <<"m", "u", "c">>
    [] type = <<"D", "I", "E", "U">> -> <<"d", "i", "e", "u">>
    [] type = <<"K", "H", "O", "A", "N">> -> <<"k", "h", "o", "a", "n">>
    [] type = <<"D", "I", "E", "M">> -> <<"d", "i", "e", "m">>

\* the key of the spec for node n: urn, '#', type in lower case, '_',
\* ordinal
KeyOfNode(n) ==
  urn \o <<"#">> \o LowerType(nodes[n].type) \o <<"_">> \o nodes[n].number

----------------------------------------------------------------------------
\* a code in lower case with its underscores removed, character by
\* character
RECURSIVE LowerWithoutUnderscores(_)
LowerWithoutUnderscores(code) ==
  IF code = <<>> THEN <<>>
  ELSE (IF Head(code) = "_" THEN <<>> ELSE <<LowerChar(Head(code))>>)
       \o LowerWithoutUnderscores(Tail(code))

\* a number with every "/" replaced by a dash and every other character
\* that is no letter, digit or dash removed, character by character
RECURSIVE DashedAlphanumeric(_)
DashedAlphanumeric(number) ==
  IF number = <<>> THEN <<>>
  ELSE (CASE Head(number) \in {"/", "-"} -> <<"-">>
          [] Head(number) \in AsciiLower \cup AsciiUpper \cup Digits
               -> <<Head(number)>>
          [] OTHER -> <<>>)
       \o DashedAlphanumeric(Tail(number))

\* the part of s after its last ";"
AfterLastSemicolon(s) ==
  LET ps == {k \in 1..Len(s) : s[k] = ";"}
  IN  SubSeq(s, (CHOOSE k \in ps : \A j \in ps : j <= k) + 1, Len(s))

----------------------------------------------------------------------------
\* the loop of parseDocument is about to process a marker line
AtMarkerLine ==
  pc = "loop" /\ idx <= Len(lines) /\ FirstPattern(lines[idx]) # 0

\* the level of the marker line about to be processed
MarkerLevel == componentPatterns[FirstPattern(lines[idx])].level

\* the open entries that stay open at a marker line of level l
StayOpen(l) == SelectSeq(stack, LAMBDA e : nodes[e].level < l)

\* the step over a marker line: the entries of level >= L are closed, the
\* new component is the last child of the nearest entry that stays open,
\* whose level is below L, or the last root when none stays open, and it
\* is attached nowhere else
AttachmentStep ==
  (AtMarkerLine /\ idx' = idx + 1) =>
    /\ Len(nodes') = Len(nodes) + 1
    /\ nodes'[Len(nodes')].level = MarkerLevel
    /\ nodes'[Len(nodes')].children = <<>>
    /\ stack' = Append(StayOpen(MarkerLevel), Len(nodes'))
    /\ IF StayOpen(MarkerLevel) = <<>>
         THEN /\ structure' = Append(structure, Len(nodes'))
              /\ \A n \in 1..Len(nodes) : nodes'[n].children = nodes[n].children
         ELSE /\ structure' = structure
              /\ \A n \in 1..Len(nodes) :
                   nodes'[n].children =
                     IF n = StayOpen(MarkerLevel)[Len(StayOpen(MarkerLevel))]
                       THEN Append(nodes[n].children, Len(nodes'))
                       ELSE nodes[n].children
              /\ nodes[StayOpen(MarkerLevel)[Len(StayOpen(MarkerLevel))]].level
                   < MarkerLevel

\* C22: at a marker line of level L every open stack entry of level >= L
\* is closed and the new component becomes the last child of the nearest
\* entry that stays open, of level < L, or a new root when none stays.
AttachmentRule == [][AttachmentStep]_vars

\* a returned forest in which a component of the lowest level is a root, a
\* later marker line closed it, and a child skips a level below its parent
AttachmentRuleWitness ==
  /\ pc = "parsed"
  /\ Len(structure) >= 1
  /\ nodes[structure[1]].level = 6
  /\ Len(nodes) >= 3
  /\ \E p, c \in 1..Len(nodes) :
       IsChild(c, p) /\ nodes[c].level > nodes[p].level + 1


----------------------------------------------------------------------------
\* the positions of the marker lines among the lines ls
MarkerPositions(ls) == {i \in 1..Len(ls) : FirstPattern(ls[i]) # 0}

\* the position of the k-th marker line of ls, one past the last line when
\* ls has fewer than k marker lines
NthMarker(ls, k) ==
  IF k > Cardinality(MarkerPositions(ls)) THEN Len(ls) + 1
  ELSE CHOOSE i \in MarkerPositions(ls) :
         Cardinality({j \in MarkerPositions(ls) : j <= i}) = k

\* a line that is not whitespace only
NonBlank(l) == \E j \in 1..Len(l) : l[j] \notin Whitespace

\* the non-blank lines strictly between the k-th marker line of ls and the
\* next one, or the end of ls
BodyLinesOf(ls, k) ==
  SelectSeq(SubSeq(ls, NthMarker(ls, k) + 1, NthMarker(ls, k + 1) - 1),
            NonBlank)

\* C23: the content of the k-th component is the non-blank lines strictly
\* between the k-th marker line and the next one (or the end of the
\* input), joined by newlines and trimmed: neither its own marker line,
\* nor a line of a child or of any other component, nor a line from before
\* the first marker line.
BodyOwnership ==
  pc = "parsed" =>
    /\ Len(nodes) = Cardinality(MarkerPositions(lines))
    /\ \A k \in 1..Len(nodes) :
         nodes[k].content = Trim(Join(BodyLinesOf(lines, k)))

\* a returned article with a body line and a clause under it with a padded
\* body line of its own, each content holding just its own line, trimmed
BodyOwnershipWitness ==
  /\ pc = "parsed"
  /\ lines = <<L_Dieu2, L_Body, L_Khoan, L_Padded>>
  /\ nodes[1].children = <<2>>
  /\ nodes[1].content = L_Body
  /\ nodes[2].content = <<"p">>


----------------------------------------------------------------------------
\* the loop of parseDocument is about to process a line that no marker
\* pattern matches
AtNonMarkerLine ==
  pc = "loop" /\ idx <= Len(lines) /\ FirstPattern(lines[idx]) = 0

\* the step over such a line: the stack and the forest stay as they are,
\* and so does everything else but the body buffer, which a non-blank line
\* is appended to and a blank line leaves alone
NonMarkerStep ==
  (AtNonMarkerLine /\ idx' = idx + 1) =>
    /\ stack' = stack
    /\ nodes' = nodes
    /\ structure' = structure
    /\ metadata' = metadata
    /\ crossReferences' = crossReferences
    /\ currentContent' = IF NonBlank(lines[idx])
                           THEN Append(currentContent, lines[idx])
                           ELSE currentContent

\* C24: processing a line that matches no marker pattern leaves the stack
\* of open components and the forest unchanged; a blank line leaves the
\* body buffer unchanged too, a non-blank one is appended to the buffer
\* and to nothing else.
NonMarkerFrame == [][NonMarkerStep]_vars

\* a blank line has been processed after a body line of an open article,
\* which is still open, and the buffer holds the body line only
NonMarkerFrameWitness ==
  /\ pc = "loop"
  /\ idx = 4
  /\ SubSeq(lines, 1, 3) = <<L_Dieu2, L_Body, L_Blank>>
  /\ stack = <<1>>
  /\ currentContent = <<L_Body>>


----------------------------------------------------------------------------
\* the elements of a set of numbers in ascending order
Ascending(S) ==
  [k \in 1..Cardinality(S) |->
     CHOOSE i \in S : Cardinality({j \in S : j <= i}) = k]

\* the parent of node n, 0 for a root
ParentOf(n) ==
  IF \E p \in 1..Len(nodes) : IsChild(n, p)
    THEN CHOOSE p \in 1..Len(nodes) : IsChild(n, p)
    ELSE 0

\* the number of ancestors of node n
RECURSIVE DepthOf(_)
DepthOf(n) == IF ParentOf(n) = 0 THEN 0 ELSE 1 + DepthOf(ParentOf(n))

\* node d is a descendant of node a
RECURSIVE IsBelow(_, _)
IsBelow(d, a) ==
  /\ ParentOf(d) # 0
  /\ (ParentOf(d) = a \/ IsBelow(ParentOf(d), a))

\* the siblings of node n, itself included, in list order
SiblingsOf(n) ==
  IF ParentOf(n) = 0 THEN structure ELSE nodes[ParentOf(n)].children

\* the heading comment of the block of node n
HeadingOf(n) == <<"// Create ">> \o nodes[n].type \o <<" ">> \o nodes[n].number

\* the variable of the block of node n: c, its depth, _, its index among
\* its siblings counted from 0
BlockVarOf(n) ==
  <<"c", DigitChar(DepthOf(n)), "_", DigitChar(PosIn(SiblingsOf(n), n) - 1)>>

\* the variable upserted by the node upsert in line l
NodeVarIn(l) == SubSeq(l, 2, Len(l) - 1)

\* the variable the edge upsert in line l points to
EdgeTargetIn(l) ==
  SubSeq(l, 1 + (CHOOSE j \in 1..Len(l) : l[j] = ")-[:HAS_COMPONENT]->("),
         Len(l) - 1)

\* C25: the component blocks of the output follow the pre-order of the
\* tree, a component, then its descendants, then its next sibling, with
\* siblings in list order; and in every block the node upsert stands
\* before the HAS_COMPONENT edge upsert of the same component, which
\* stands before the next block.
EmissionOrder ==
  pc = "generated" =>
    LET ls   == Split(cypher)
        pre  == Preorder(nodes, structure)
        hs   == Ascending({i \in 1..Len(ls) :
                             Len(ls[i]) >= 2 /\ ls[i][1] = "// Create "})
        cm   == Ascending(ComponentMerges(ls))
        em   == Ascending(EdgeMerges(ls))
    IN  /\ Len(hs) = Len(pre) /\ Len(cm) = Len(pre) /\ Len(em) = Len(pre)
        /\ \A k \in 1..Len(pre) :
             /\ ls[hs[k]] = HeadingOf(pre[k])
             /\ hs[k] < cm[k] /\ cm[k] < em[k]
             /\ k < Len(pre) => em[k] < hs[k + 1]
             /\ NodeVarIn(ls[cm[k]]) = BlockVarOf(pre[k])
             /\ EdgeTargetIn(ls[em[k]]) = BlockVarOf(pre[k])
        /\ \A k \in 1..Len(pre) : \A j \in 1..Len(pre) :
             /\ IsChild(pre[j], pre[k]) => k < j
             /\ (/\ ParentOf(pre[j]) = ParentOf(pre[k])
                 /\ PosIn(SiblingsOf(pre[k]), pre[k])
                      < PosIn(SiblingsOf(pre[j]), pre[j])) => k < j
             /\ (/\ ParentOf(pre[j]) = ParentOf(pre[k])
                 /\ PosIn(SiblingsOf(pre[j]), pre[j])
                      = PosIn(SiblingsOf(pre[k]), pre[k]) + 1) =>
                  \A d \in (k + 1)..(j - 1) : IsBelow(pre[d], pre[k])

\* the output for a root with a child and a second root after it: the
\* block of the child stands between the blocks of the two roots
EmissionOrderWitness ==
  /\ pc = "generated"
  /\ structure = <<1, 3>>
  /\ nodes[1].children = <<2>>
  /\ Len(Ascending(EdgeMerges(Split(cypher)))) = 3


----------------------------------------------------------------------------
\* the pattern the edge upsert in line l starts from: what stands between
\* "MERGE (" and the arrow
EdgeSourceIn(l) ==
  SubSeq(l, 2, (CHOOSE j \in 1..Len(l) : l[j] = ")-[:HAS_COMPONENT]->(") - 1)

\* the sequence sub occurs in the sequence s
OccursIn(sub, s) ==
  \E p \in 1..(Len(s) - Len(sub) + 1) : SubSeq(s, p, p + Len(sub) - 1) = sub

\* the key of the immediate parent of node n: the urn of the document for
\* a root, the key of the enclosing component otherwise
ParentKeyOf(n) == IF ParentOf(n) = 0 THEN urn ELSE KeyOfNode(ParentOf(n))

\* C26: the HAS_COMPONENT edge upsert of every component starts from its
\* immediate parent, the document for a root and the enclosing component
\* otherwise, and names that parent by its urn key.
EdgeFromParentKey ==
  pc = "generated" =>
    LET ls  == Split(cypher)
        pre == Preorder(nodes, structure)
        em  == Ascending(EdgeMerges(ls))
    IN  /\ Len(em) = Len(pre)
        /\ \A k \in 1..Len(pre) :
             OccursIn(ParentKeyOf(pre[k]), EdgeSourceIn(ls[em[k]]))


----------------------------------------------------------------------------
\* the line that sets a field to the bare word null
NullField(name) ==
  CASE name = "soHieu" -> <<"  soHieu: null,">>
    [] name = "ngayBanHanh" -> <<"  ngayBanHanh: null,">>

\* C27: the output holds the document upsert once, keyed by the urn, and
\* before every component block; the upsert is followed by the four fields
\* loaiVanBan, soHieu, ngayBanHanh and hanhDongLapPhap, an absent soHieu
\* or ngayBanHanh being the bare word null and a present ngayBanHanh being
\* wrapped in date(...).
DocumentUpsert ==
  pc = "generated" =>
    LET ls == Split(cypher)
        dm == DocumentMerges(ls)
        d  == CHOOSE i \in dm : TRUE
    IN  /\ Cardinality(dm) = 1
        /\ ls[d] = <<"MERGE (vb:VanBan {urn: '">> \o urn \o <<"'})">>
        /\ \A c \in ComponentMerges(ls) \cup EdgeMerges(ls) : d + 6 < c
        /\ ls[d + 1] = <<"SET vb += {">>
        /\ ls[d + 2] = <<"  loaiVanBan: '">> \o metadata.loaiVanBan \o <<"',">>
        /\ ls[d + 3] = IF metadata.soHieu = NULL THEN NullField("soHieu")
                       ELSE <<"  soHieu: '">> \o metadata.soHieu \o <<"',">>
        /\ ls[d + 4] = IF metadata.ngayBanHanh = NULL
                         THEN NullField("ngayBanHanh")
                         ELSE <<"  ngayBanHanh: date('">>
                              \o metadata.ngayBanHanh \o <<"'),">>
        /\ ls[d + 5] = <<"  hanhDongLapPhap: '">>
                       \o metadata.hanhDongLapPhap \o <<"'">>
        /\ ls[d + 6] = <<"};">>

\* an output for a text with a date phrase, no number label and a
\* component: soHieu is null, the date is in date(...), the block follows
DocumentUpsertWitness ==
  /\ pc = "generated"
  /\ metadata.soHieu = NULL
  /\ metadata.ngayBanHanh # NULL
  /\ Len(nodes) >= 1
  /\ \E i \in 1..Len(Split(cypher)) :
       Split(cypher)[i] = <<"  ngayBanHanh: date('">>
                          \o metadata.ngayBanHanh \o <<"'),">>


----------------------------------------------------------------------------
\* the handler of the generate route has returned a urn
UrnReturned ==
  /\ route = "generate"
  /\ Responded
  /\ "urn" \in DOMAIN response

\* the urn the generate handler computes for the parsed text when the
\* clock reads t
UrnAtTime(t) ==
  generateURN(metadata.loaiVanBan,
              OrElse(metadata.coQuanBanHanh, <<"q", "u", "o", "c", "h", "o", "i">>),
              OrElse(metadata.ngayBanHanh, IsoDate(t)),
              OrElse(metadata.soHieu, <<"0", "0", "0">>))

\* C28: the urn the generate handler returns for a text is the urn it
\* returns for that text at any other time, and the document key and the
\* component keys of the returned Cypher are built on it, also when the
\* text has no date phrase or no number label.
ClockFreeIdentifiers ==
  UrnReturned =>
    /\ \A t \in 0..MaxClock : response.urn = UrnAtTime(t)
    /\ pc = "generated" =>
         \A t \in 0..MaxClock :
           /\ \E i \in DocumentMerges(Split(cypher)) :
                Split(cypher)[i]
                  = <<"MERGE (vb:VanBan {urn: '">> \o UrnAtTime(t) \o <<"'})">>
           /\ \A k \in 1..Len(ComponentKeys(Split(cypher))) :
                SubSeq(ComponentKeys(Split(cypher))[k], 1, Len(UrnAtTime(t)))
                  = UrnAtTime(t)


----------------------------------------------------------------------------
\* C29: after every processed line the levels of the open-component stack
\* increase strictly from bottom to top, the bottom entry is a root, every
\* other entry is the last child of the entry below it, the top entry is
\* the component created last, and the stack holds at most as many entries
\* as there are marker levels.
StackInvariant ==
  /\ \A i \in 1..(Len(stack) - 1) :
       /\ nodes[stack[i]].level < nodes[stack[i + 1]].level
       /\ nodes[stack[i]].children # <<>>
       /\ nodes[stack[i]].children[Len(nodes[stack[i]].children)] = stack[i + 1]
  /\ Len(stack) > 0 => \E r \in 1..Len(structure) : structure[r] = stack[1]
  /\ Len(nodes) > 0 => Len(stack) > 0 /\ stack[Len(stack)] = Len(nodes)
  /\ Len(stack) <= Len(componentPatterns)

\* the stack holds one entry of each of the six levels after a seventh
\* marker line took the place of the entry of its level
StackInvariantWitness ==
  /\ pc = "loop"
  /\ Len(stack) = 6
  /\ Len(nodes) = 7
  /\ stack[6] = 7


----------------------------------------------------------------------------
\* the number of places of the forest that hold node n: among the roots
\* and among the children of every node
PlacesOf(n) ==
  Cardinality({r \in 1..Len(structure) : structure[r] = n})
  + Cardinality({pj \in (1..Len(nodes)) \X (1..Len(nodes)) :
                   /\ pj[2] <= Len(nodes[pj[1]].children)
                   /\ nodes[pj[1]].children[pj[2]] = n})

\* s is a prefix of t
IsPrefix(s, t) == Len(s) <= Len(t) /\ SubSeq(t, 1, Len(s)) = s

\* after every line: as many components as marker lines read, each at
\* exactly one place of the forest, all of them counted
OnePerMarkerLine ==
  /\ Len(nodes) = Cardinality(MarkerPositions(SubSeq(lines, 1, idx - 1)))
  /\ \A n \in 1..Len(nodes) : PlacesOf(n) = 1
  /\ countComponents(nodes, structure) = Len(nodes)
  /\ pc = "parsed" =>
       countComponents(nodes, structure) = Cardinality(MarkerPositions(lines))

\* a step of the loop creates a component exactly at a marker line and
\* removes none: every component stays what it is, where it is
NoneRemoved ==
  (pc = "loop") =>
    /\ Len(nodes') = Len(nodes) + (IF AtMarkerLine /\ idx' # idx THEN 1 ELSE 0)
    /\ IsPrefix(structure, structure')
    /\ \A n \in 1..Len(nodes) :
         /\ nodes'[n].type = nodes[n].type
         /\ nodes'[n].number = nodes[n].number
         /\ IsPrefix(nodes[n].children, nodes'[n].children)

\* C30: every marker line creates exactly one component and nothing else
\* creates one, each component is at exactly one place of the forest, none
\* is ever removed, and countComponents of the result is the number of
\* marker lines of the text.
ComponentConservation == [](OnePerMarkerLine) /\ [][NoneRemoved]_vars

\* a returned forest of one article and its two clauses for a text of
\* four lines, one of them a body line
ComponentConservationWitness ==
  /\ pc = "parsed"
  /\ Len(lines) = 4
  /\ Cardinality(MarkerPositions(lines)) = 3
  /\ countComponents(nodes, structure) = 3
  /\ Len(structure) = 1
  /\ Len(nodes[1].children) = 2

=============================================================================
